---- MODULE Spec2Model ----
(***************************************************************************)
(* Dependency reconstruction core of tech-stack-analyzer: lockfile         *)
(* parsers (package-lock.json, Gemfile.lock) and the version systems       *)
(* (PyPI, npm, Maven), modelled from the Go sources.                       *)
(*                                                                         *)
(* Strings are TLA+ strings; Go's byte offsets are kept 0-based, so        *)
(* s[a:b] is Slice(s, a, b) and s[a:] is From(s, a).                       *)
(***************************************************************************)
EXTENDS Integers, Sequences, FiniteSets, TLC

VARIABLES
    call,          \* the entry point that was called
    returned,      \* result of the call before this one with the same inputs
    pc,            \* position of the call in progress
    content,       \* decoded lockfile handed to the entry point
    packageJSON,   \* manifest handed to the entry point (nil = TRUE when absent)
    options,       \* [IncludeTransitive |-> BOOLEAN]
    decl,          \* prodDeps/devDeps/peerDeps/optionalDeps built by the call
    pending,       \* stack of map ranges in progress (keys not yet visited)
    dependencies,  \* the slice being appended to, the call's result
    lines,         \* Gemfile.lock content split in lines
    lineNo,        \* index of the next line of the GEM pass
    inGemSection,  \* GEM pass flag
    directDeps,    \* DEPENDENCIES set of the Gemfile.lock call
    raw,           \* version strings handed to a version system
    system,        \* version system in use
    parsed,        \* results of Parse on raw
    canon,         \* Canon(true) of each parsed version
    reparsed,      \* Parse of each canonical form
    cmp,           \* Compare results, cmp[i][j] = Compare(parsed[i], parsed[j])
    currentPackage,    \* yarn.lock loop: name of the entry being read
    currentSpecType,   \* yarn.lock loop: spec type of the entry being read
    currentResolution, \* yarn.lock loop: resolution seen in the entry
    currentGroups,     \* Gemfile loop: groups of the last group header
    groupDepth,        \* Gemfile loop: group headers not yet closed
    detectors,         \* components registry: the slice of detectors
    mu,                \* components registry: its sync.RWMutex
    packageProviders,  \* providers registry: dependency type -> provider
    providersMutex,    \* providers registry: its sync.RWMutex
    thread,            \* goroutines that call the registries
    registered         \* the Register calls made so far

vars == <<call, returned, pc, content, packageJSON, options, decl, pending, dependencies,
          lines, lineNo, inGemSection, directDeps,
          raw, system, parsed, canon, reparsed, cmp,
          currentPackage, currentSpecType, currentResolution,
          currentGroups, groupDepth,
          detectors, mu, packageProviders, providersMutex, thread, registered>>

lockVars == <<content, packageJSON, options, decl, pending, dependencies>>
gemVars  == <<lines, lineNo, inGemSection, directDeps>>
verVars  == <<raw, system, parsed, canon, reparsed, cmp>>
scanVars == <<call, returned, currentPackage, currentSpecType, currentResolution,
              currentGroups, groupDepth>>
registryVars == <<detectors, mu, packageProviders, providersMutex, thread, registered>>

\* number of goroutines that call the registries
MaxThreads == 2

Threads == 1..MaxThreads

DependencyTypes == {"npm", "maven"}

\* the zero value of sync.RWMutex: no writer, no reader
Unlocked == [writer |-> 0, readers |-> {}]

\* a map[string]*PackageProvider without entries; 0 stands for no entry
NoProviders == [t \in DependencyTypes |-> 0]

\* a goroutine outside every call, with the results of its last calls
IdleThread == [pc |-> "idle", type |-> "", id |-> 0, local |-> << >>,
               provider |-> 0, all |-> NoProviders]

\* the registries after package initialisation
IdleRegistry ==
    /\ detectors = << >>
    /\ mu = Unlocked
    /\ packageProviders = NoProviders
    /\ providersMutex = Unlocked
    /\ thread = [p \in Threads |-> IdleThread]
    /\ registered = [detectors |-> 0, providers |-> << >>, reads |-> 0]

-----------------------------------------------------------------------------
(* Go strings: package strings and strconv                                 *)

Min(S) == CHOOSE x \in S : \A y \in S : x <= y
Max(S) == CHOOSE x \in S : \A y \in S : x >= y

At(s, i)       == SubSeq(s, i + 1, i + 1)          \* s[i]
Slice(s, a, b) == SubSeq(s, a + 1, b)              \* s[a:b]
From(s, a)     == SubSeq(s, a + 1, Len(s))         \* s[a:]

HasPrefix(s, p) == Len(s) >= Len(p) /\ Slice(s, 0, Len(p)) = p

\* strings.Index / strings.IndexByte: first offset of sub in s, or -1
Index(s, sub) ==
    LET hits == {i \in 0..(Len(s) - Len(sub)) : Slice(s, i, i + Len(sub)) = sub}
    IN  IF hits = {} THEN -1 ELSE Min(hits)

\* strings.LastIndexByte
LastIndex(s, sub) ==
    LET hits == {i \in 0..(Len(s) - Len(sub)) : Slice(s, i, i + Len(sub)) = sub}
    IN  IF hits = {} THEN -1 ELSE Max(hits)

Contains(s, sub) == Index(s, sub) >= 0

\* strings.Split with a non-empty separator
RECURSIVE Split(_, _)
Split(s, sep) ==
    LET i == Index(s, sep)
    IN  IF i < 0 THEN <<s>>
        ELSE <<Slice(s, 0, i)>> \o Split(From(s, i + Len(sep)), sep)

\* strings.Count: non-overlapping occurrences
Count(s, sub) == Len(Split(s, sub)) - 1

\* strings.Join
RECURSIVE Join(_, _)
Join(parts, sep) ==
    IF Len(parts) = 0 THEN ""
    ELSE IF Len(parts) = 1 THEN parts[1]
    ELSE parts[1] \o sep \o Join(Tail(parts), sep)

IsSpace(c) == c \in {" ", "\t", "\n", "\r"}

RECURSIVE TrimLeft(_)
TrimLeft(s) == IF Len(s) > 0 /\ IsSpace(At(s, 0)) THEN TrimLeft(From(s, 1)) ELSE s

RECURSIVE TrimRightSpace(_)
TrimRightSpace(s) ==
    IF Len(s) > 0 /\ IsSpace(At(s, Len(s) - 1))
    THEN TrimRightSpace(Slice(s, 0, Len(s) - 1)) ELSE s

\* strings.TrimSpace
TrimSpace(s) == TrimRightSpace(TrimLeft(s))

\* strings.Fields: the non-empty runs between white space
RECURSIVE Fields(_)
Fields(s) ==
    LET t == TrimLeft(s)
        ends == {i \in 0..(Len(t) - 1) : IsSpace(At(t, i))}
    IN  IF t = "" THEN << >>
        ELSE IF ends = {} THEN <<t>>
        ELSE <<Slice(t, 0, Min(ends))>> \o Fields(From(t, Min(ends)))

Digits == <<"0", "1", "2", "3", "4", "5", "6", "7", "8", "9">>

isDigit(c) == \E d \in 1..10 : Digits[d] = c

DigitVal(c) == (CHOOSE d \in 1..10 : Digits[d] = c) - 1

\* isAllDigits (pypi.go)
isAllDigits(s) == Len(s) > 0 /\ \A i \in 0..(Len(s) - 1) : isDigit(At(s, i))

RECURSIVE DecVal(_)
DecVal(s) ==
    IF Len(s) = 0 THEN 0
    ELSE 10 * DecVal(Slice(s, 0, Len(s) - 1)) + DigitVal(At(s, Len(s) - 1))

\* strconv.Atoi: an optional sign followed by decimal digits
Atoi(s) ==
    LET signed == Len(s) > 0 /\ At(s, 0) \in {"+", "-"}
        body   == IF signed THEN From(s, 1) ELSE s
    IN  IF isAllDigits(body)
        THEN [ok |-> TRUE,
              val |-> IF signed /\ At(s, 0) = "-" THEN 0 - DecVal(body) ELSE DecVal(body)]
        ELSE [ok |-> FALSE, val |-> 0]

RECURSIVE ItoaNat(_)
ItoaNat(n) == IF n < 10 THEN Digits[n + 1] ELSE ItoaNat(n \div 10) \o Digits[(n % 10) + 1]

\* strconv.Itoa
Itoa(n) == IF n < 0 THEN "-" \o ItoaNat(0 - n) ELSE ItoaNat(n)

-----------------------------------------------------------------------------
(* package-lock.json: src/unnamed/part_000                                 *)

EmptyMap == << >>

\* PackageInfo, the fields the parser reads
PackageInfo(version, dev, optional, bundled, deps) ==
    [Version |-> version, Dev |-> dev, Optional |-> optional,
     Bundled |-> bundled, Dependencies |-> deps]

\* types.Dependency as ParsePackageLockWithOptions fills it: Direct is never
\* assigned and keeps Go's zero value
NpmDependency(name, version, scope) ==
    [Type |-> "npm", Name |-> name, Version |-> version,
     SourceFile |-> "package-lock.json", Scope |-> scope, Direct |-> FALSE]

extractNameFromNodeModulesPath(path) ==
    LET segments    == Split(path, "node_modules/")
        lastSegment == TrimSpace(segments[Len(segments)])
        parts       == Split(lastSegment, "/")
    IN  IF Len(segments) < 2 THEN ""
        ELSE IF lastSegment = "" THEN ""
        ELSE IF HasPrefix(lastSegment, "@") /\ Len(parts) >= 2
             THEN Join(SubSeq(parts, 1, 2), "/")
        ELSE parts[1]

determineScopeFromLockfile(name, pkg, prodDeps, devDeps, peerDeps, optionalDeps) ==
    IF name \in peerDeps THEN "peer"
    ELSE IF name \in optionalDeps \/ pkg.Optional THEN "optional"
    ELSE IF name \in devDeps \/ pkg.Dev THEN "dev"
    ELSE IF name \in prodDeps THEN "prod"
    ELSE "prod"

\* keys of a Go map
Keys(m) == DOMAIN m

\* one range loop in progress: the map, the keys still to visit (Go leaves
\* the iteration order of a map unspecified) and the accumulated path
Frame(m, path) == [deps |-> m, todo |-> Keys(m), path |-> path]

Top(stack) == stack[Len(stack)]
Pop(stack) == SubSeq(stack, 1, Len(stack) - 1)
Visit(stack, key) ==
    [stack EXCEPT ![Len(stack)].todo = Top(stack).todo \ {key}]

EmptyDecl == [prodDeps |-> {}, devDeps |-> {}, peerDeps |-> {}, optionalDeps |-> {}]

\* lines 514-537: the declared name sets; peer and optional names come from
\* decoding the same content as an enhanced package.json
BuildDecl(c, pj) ==
    IF pj.nil THEN EmptyDecl
    ELSE [prodDeps     |-> pj.Dependencies,
          devDeps      |-> pj.DevDependencies,
          peerDeps     |-> IF c.enhanced.err THEN {} ELSE c.enhanced.PeerDependencies,
          optionalDeps |-> IF c.enhanced.err THEN {} ELSE c.enhanced.OptionalDependencies]

\* lines 508-542, 575-580: decode, build the name sets, pick the format
ParsePackageLockWithOptions ==
    /\ call = "ParsePackageLockWithOptions"
    /\ pc = "call"
    /\ IF content.err
       THEN /\ pc' = "done"
            /\ UNCHANGED <<decl, pending>>
       ELSE /\ decl' = BuildDecl(content, packageJSON)
            /\ IF Cardinality(Keys(content.Packages)) > 0
               THEN /\ pending' = <<Frame(content.Packages, "")>>
                    /\ pc' = "packages"
               ELSE IF Cardinality(Keys(content.Dependencies)) > 0
               THEN /\ pending' = <<Frame(content.Dependencies, "")>>
                    /\ pc' = IF options.IncludeTransitive THEN "parseDependenciesV2"
                                                          ELSE "dependencies"
               ELSE /\ pending' = << >>
                    /\ pc' = "done"
    /\ UNCHANGED <<content, packageJSON, options, dependencies, gemVars, verVars, scanVars, registryVars>>

\* lines 545-562: the entries the v3 loop passes over
SkipBundledKept(path, name, pkg, opts) ==
    \/ path = ""
    \/ name = ""
    \/ (~opts.IncludeTransitive /\ Count(path, "node_modules/") # 1)

skipPackage(path, name, pkg, opts) ==
    \/ path = ""
    \/ name = ""
    \/ pkg.Bundled
    \/ (~opts.IncludeTransitive /\ Count(path, "node_modules/") # 1)

\* lines 544-574: one iteration of the range over lockfile.Packages
RangePackages ==
    /\ pc = "packages"
    /\ \E path \in Top(pending).todo :
         LET pkg   == content.Packages[path]
             name  == extractNameFromNodeModulesPath(path)
             scope == determineScopeFromLockfile(name, pkg, decl.prodDeps,
                          decl.devDeps, decl.peerDeps, decl.optionalDeps)
             skip  == skipPackage(path, name, pkg, options)
         IN  /\ pending' = Visit(pending, path)
             /\ dependencies' =
                  IF skip THEN dependencies
                  ELSE Append(dependencies, NpmDependency(name, pkg.Version, scope))
    /\ UNCHANGED <<pc, content, packageJSON, options, decl, gemVars, verVars, scanVars, registryVars>>

\* lines 581-593: one iteration of the range over the top-level v2 entries
RangeDependencies ==
    /\ pc = "dependencies"
    /\ \E name \in Top(pending).todo :
         LET dep   == content.Dependencies[name]
             scope == determineScopeFromLockfile(name,
                          PackageInfo("", dep.Dev, dep.Optional, FALSE, EmptyMap),
                          decl.prodDeps, decl.devDeps, decl.peerDeps, decl.optionalDeps)
         IN  /\ pending' = Visit(pending, name)
             /\ dependencies' =
                  IF dep.Bundled THEN dependencies
                  ELSE Append(dependencies, NpmDependency(name, dep.Version, scope))
    /\ UNCHANGED <<pc, content, packageJSON, options, decl, gemVars, verVars, scanVars, registryVars>>

\* lines 655-679: one iteration of the range in parseDependenciesV2; a nested
\* map opens a new range whose records follow the parent's record
parseDependenciesV2 ==
    /\ pc = "parseDependenciesV2"
    /\ \E name \in Top(pending).todo :
         LET dep        == Top(pending).deps[name]
             scope      == determineScopeFromLockfile(name, dep, decl.prodDeps,
                               decl.devDeps, decl.peerDeps, decl.optionalDeps)
             nestedPath == Top(pending).path \o "node_modules/" \o name \o "/"
             rest       == Visit(pending, name)
         IN  IF dep.Bundled
             THEN /\ pending' = rest
                  /\ UNCHANGED dependencies
             ELSE /\ dependencies' = Append(dependencies,
                                            NpmDependency(name, dep.Version, scope))
                  /\ pending' = IF Cardinality(Keys(dep.Dependencies)) > 0
                                THEN Append(rest, Frame(dep.Dependencies, nestedPath))
                                ELSE rest
    /\ UNCHANGED <<pc, content, packageJSON, options, decl, gemVars, verVars, scanVars, registryVars>>

\* lines 597, 681: a range is exhausted; the innermost call returns
ReturnDependencies ==
    /\ pc \in {"packages", "dependencies", "parseDependenciesV2"}
    /\ Top(pending).todo = {}
    /\ pending' = Pop(pending)
    /\ pc' = IF Len(pending) = 1 THEN "done" ELSE pc
    /\ UNCHANGED <<content, packageJSON, options, decl, dependencies, gemVars, verVars, scanVars, registryVars>>


-----------------------------------------------------------------------------
(* Inputs of the package-lock.json model                                   *)

\* number of entries of a generated v3 packages map
MaxEntries == 2

LockPaths ==
    <<"",
      "node_modules/express",
      "node_modules/accepts",
      "node_modules/express/node_modules/accepts",
      "node_modules/@babel/core",
      "node_modules/@babel/core/node_modules/accepts">>

\* every generated entry pins its own version, so a record can be traced
\* back to the entry it was built from
PinnedVersion(i) == "1.0." \o Itoa(i)

LockFlags ==
    { [Dev |-> FALSE, Optional |-> FALSE, Bundled |-> FALSE],
      [Dev |-> TRUE,  Optional |-> FALSE, Bundled |-> FALSE],
      [Dev |-> FALSE, Optional |-> TRUE,  Bundled |-> FALSE],
      [Dev |-> FALSE, Optional |-> FALSE, Bundled |-> TRUE] }

PathIndex(path) == CHOOSE i \in 1..Len(LockPaths) : LockPaths[i] = path

\* the v3 packages maps: up to MaxEntries paths, each with its flags
PackagesMaps ==
    UNION { { [path \in S |-> PackageInfo(PinnedVersion(PathIndex(path)),
                                 f[path].Dev, f[path].Optional, f[path].Bundled,
                                 EmptyMap)] : f \in [S -> LockFlags] }
            : S \in { T \in SUBSET { LockPaths[i] : i \in 1..Len(LockPaths) } :
                        Cardinality(T) <= MaxEntries } }

\* the v2 dependencies trees: express (with or without a nested accepts, or a
\* nested ms) and a hoisted accepts
NestedMaps ==
    { EmptyMap } \cup
    { [name \in {n} |-> PackageInfo("2.0." \o Itoa(Len(n)), f.Dev, f.Optional,
                                    f.Bundled, EmptyMap)]
      : n \in {"accepts", "ms"}, f \in LockFlags }

DependenciesMaps ==
    UNION { { [name \in S |->
                 IF name = "express"
                 THEN PackageInfo("4.18.2", f[name].Dev, f[name].Optional,
                                  f[name].Bundled, nested)
                 ELSE PackageInfo("1.3.8", f[name].Dev, f[name].Optional,
                                  f[name].Bundled, EmptyMap)]
              : f \in [S -> LockFlags], nested \in NestedMaps }
            : S \in SUBSET {"express", "accepts"} }

\* what decoding the lockfile bytes as an enhanced package.json yields
EnhancedPackages ==
    { [err |-> TRUE,  PeerDependencies |-> {}, OptionalDependencies |-> {}],
      [err |-> FALSE, PeerDependencies |-> {}, OptionalDependencies |-> {}],
      [err |-> FALSE, PeerDependencies |-> {"express"},
                      OptionalDependencies |-> {"accepts"}] }

LockContents ==
    { [err |-> TRUE, Packages |-> EmptyMap, Dependencies |-> EmptyMap,
       enhanced |-> [err |-> TRUE, PeerDependencies |-> {}, OptionalDependencies |-> {}]] }
    \cup { [err |-> FALSE, Packages |-> p, Dependencies |-> EmptyMap, enhanced |-> e]
           : p \in PackagesMaps, e \in EnhancedPackages }
    \cup { [err |-> FALSE, Packages |-> EmptyMap, Dependencies |-> d, enhanced |-> e]
           : d \in DependenciesMaps, e \in EnhancedPackages }

Manifests ==
    { [nil |-> TRUE,  Dependencies |-> {}, DevDependencies |-> {}],
      [nil |-> FALSE, Dependencies |-> {"express"}, DevDependencies |-> {}],
      [nil |-> FALSE, Dependencies |-> {"express"}, DevDependencies |-> {"@babel/core"}],
      [nil |-> FALSE, Dependencies |-> {"accepts"}, DevDependencies |-> {"express"}] }

IdleGem == /\ lines = << >>
           /\ lineNo = 0
           /\ inGemSection = FALSE
           /\ directDeps = {}

\* no call with the same inputs has returned yet
NoReturn == [set |-> FALSE, deps |-> << >>]

IdleScan == /\ returned = NoReturn
            /\ IdleRegistry
            /\ currentPackage = ""
            /\ currentSpecType = ""
            /\ currentResolution = ""
            /\ currentGroups = << >>
            /\ groupDepth = 0

IdleVer == /\ raw = << >>
           /\ system = "none"
           /\ parsed = << >>
           /\ canon = << >>
           /\ reparsed = << >>
           /\ cmp = << >>

InitPackageLock ==
    /\ call = "ParsePackageLockWithOptions"
    /\ pc = "call"
    /\ content \in LockContents
    /\ packageJSON \in Manifests
    /\ options \in [IncludeTransitive : BOOLEAN]
    /\ decl = EmptyDecl
    /\ pending = << >>
    /\ dependencies = << >>
    /\ IdleGem
    /\ IdleVer
    /\ IdleScan

NextPackageLock ==
    \/ ParsePackageLockWithOptions
    \/ RangePackages
    \/ RangeDependencies
    \/ parseDependenciesV2
    \/ ReturnDependencies

SpecPackageLock == InitPackageLock /\ [][NextPackageLock]_vars


-----------------------------------------------------------------------------
(* Claims about ParsePackageLockWithOptions                                *)

Records == { dependencies[i] : i \in 1..Len(dependencies) }

\* the names the manifest handed to the call declares
DirectNames ==
    IF packageJSON.nil THEN {}
    ELSE packageJSON.Dependencies \cup packageJSON.DevDependencies
         \cup decl.peerDeps \cup decl.optionalDeps

\* every entry of the lockfile, at every nesting level, with the name the
\* parser gives it
Entries(m) == { [name |-> k, info |-> m[k]] : k \in Keys(m) }

LockEntries ==
    { [name |-> extractNameFromNodeModulesPath(path), info |-> content.Packages[path]]
      : path \in Keys(content.Packages) }
    \cup Entries(content.Dependencies)
    \cup UNION { Entries(content.Dependencies[k].Dependencies)
                 : k \in Keys(content.Dependencies) }

\* a packages map made of one top-level entry node_modules/P, P declared in
\* the manifest and not bundled, and entries nested below it
TopLevelOf(P) == "node_modules/" \o P

NestedCase(P) ==
    /\ ~content.err
    /\ P \in DirectNames
    /\ TopLevelOf(P) \in Keys(content.Packages)
    /\ Cardinality(Keys(content.Packages)) >= 2
    /\ \A path \in Keys(content.Packages) :
         /\ ~content.Packages[path].Bundled
         /\ path # TopLevelOf(P) => HasPrefix(path, TopLevelOf(P) \o "/node_modules/")

ManifestNames == {"express", "accepts", "@babel/core"}

C2_UniqueTypeName ==
    pc = "done" =>
      \A i, j \in 1..Len(dependencies) :
        i # j => <<dependencies[i].Type, dependencies[i].Name>>
                   # <<dependencies[j].Type, dependencies[j].Name>>

\* C3: in default mode every returned record carries a name of the direct-name
\* set.
C3_DefaultOnlyDirectNames ==
    (pc = "done" /\ ~options.IncludeTransitive) =>
      \A d \in Records : d.Name \in DirectNames

\* C4: in default mode every declared name with a lockfile entry of its own
\* is returned with Direct=true.
C4_RoundTrip ==
    (pc = "done" /\ ~content.err /\ ~options.IncludeTransitive) =>
      \A name \in DirectNames :
        (\/ (TopLevelOf(name) \in Keys(content.Packages)
               /\ ~content.Packages[TopLevelOf(name)].Bundled)
         \/ (Keys(content.Packages) = {} /\ name \in Keys(content.Dependencies)
               /\ ~content.Dependencies[name].Bundled))
        => \E d \in Records : d.Name = name /\ d.Direct = TRUE

\* the scope rule of the claim: declared sets first, the record's own flags
\* only for a name in none of them
DeclaredFirstScope(name, pkg) ==
    IF name \in decl.peerDeps THEN "peer"
    ELSE IF name \in decl.optionalDeps THEN "optional"
    ELSE IF name \in decl.devDeps THEN "dev"
    ELSE IF name \in decl.prodDeps THEN "prod"
    ELSE IF pkg.Optional THEN "optional"
    ELSE IF pkg.Dev THEN "dev"
    ELSE "prod"

\* C5: the scope of a record follows the declared sets (peer > optional > dev
\* > prod) and the entry's own flags only when the name is declared nowhere.
C5_ScopeDeclaredFirst ==
    \A d \in Records :
      \A e \in LockEntries :
        (e.name = d.Name /\ e.info.Version = d.Version)
          => d.Scope = DeclaredFirstScope(d.Name, e.info)

\* C7: no returned record was built from an entry whose bundled flag is set:
\* each record matches, by name and pinned version, an entry that is not
\* bundled.
C7_NoBundledRecord ==
    \A d \in Records :
      \E e \in LockEntries :
        /\ e.name = d.Name
        /\ e.info.Version = d.Version
        /\ ~e.info.Bundled

\* a finished call that met a bundled entry and returned something else
C7_Witness ==
    /\ pc = "done"
    /\ Len(dependencies) >= 1
    /\ \E e \in LockEntries : e.info.Bundled


-----------------------------------------------------------------------------
(* Gemfile.lock: src/internal/scanner/parsers/gemfile_lock.go              *)

\* \s of Go's regexp
IsReSpace(c) == c \in {" ", "\t", "\n", "\r", "\f"}

\* end offset of the longest run from offset i of characters that are
\* (blank = TRUE) or are not (blank = FALSE) white space
RunEnd(s, i, blank) ==
    Min({ j \in i..Len(s) : j = Len(s) \/ (IsReSpace(At(s, j)) # blank) })

\* end offset of the longest run from offset i of characters other than ")"
NotParenEnd(s, i) ==
    Min({ j \in i..Len(s) : j = Len(s) \/ At(s, j) = ")" })

NoMatch == [ok |-> FALSE, name |-> "", version |-> ""]

\* indentation the spec pattern asks for
SpecIndent == 4

gemLockSpecRegexLoose(line) ==
    LET indent   == RunEnd(line, 0, TRUE)
        nameEnd  == RunEnd(line, indent, FALSE)
        gapEnd   == RunEnd(line, nameEnd, TRUE)
        verEnd   == NotParenEnd(line, gapEnd + 1)
    IN  IF /\ indent >= SpecIndent
           /\ nameEnd > indent
           /\ gapEnd > nameEnd
           /\ gapEnd < Len(line) /\ At(line, gapEnd) = "("
           /\ verEnd > gapEnd + 1
           /\ verEnd < Len(line)
        THEN [ok |-> TRUE, name |-> Slice(line, indent, nameEnd),
              version |-> Slice(line, gapEnd + 1, verEnd)]
        ELSE NoMatch

\* gemLockSpecRegex = ^\s{4}(\S+)\s+\(([^)]+)\)
gemLockSpecRegex(line) ==
    LET nameEnd  == RunEnd(line, SpecIndent, FALSE)
        gapEnd   == RunEnd(line, nameEnd, TRUE)
        verEnd   == NotParenEnd(line, gapEnd + 1)
    IN  IF /\ Len(line) >= SpecIndent
           /\ \A i \in 0..(SpecIndent - 1) : IsReSpace(At(line, i))
           /\ nameEnd > SpecIndent
           /\ gapEnd > nameEnd
           /\ gapEnd < Len(line) /\ At(line, gapEnd) = "("
           /\ verEnd > gapEnd + 1
           /\ verEnd < Len(line)
        THEN [ok |-> TRUE, name |-> Slice(line, SpecIndent, nameEnd),
              version |-> Slice(line, gapEnd + 1, verEnd)]
        ELSE NoMatch

\* parseDirectDependencies: the first whitespace-delimited token of the lines
\* read while inDepsSection is set
RECURSIVE directScan(_, _, _, _)
directScan(ls, i, inDepsSection, acc) ==
    IF i > Len(ls) THEN acc
    ELSE LET trimmedLine == TrimSpace(ls[i])
             parts       == Fields(trimmedLine)
         IN  IF trimmedLine = "DEPENDENCIES"
             THEN directScan(ls, i + 1, TRUE, acc)
             ELSE IF inDepsSection /\ trimmedLine \in {"BUNDLED WITH", "PLATFORMS", ""}
             THEN directScan(ls, i + 1, trimmedLine = "", acc)
             ELSE IF ~inDepsSection
             THEN directScan(ls, i + 1, inDepsSection, acc)
             ELSE directScan(ls, i + 1, inDepsSection,
                             IF Len(parts) > 0 THEN acc \cup {parts[1]} ELSE acc)

parseDirectDependencies(ls) == directScan(ls, 1, FALSE, {})

RubyDependency(name, version, isDirect) ==
    [Type |-> "ruby", Name |-> name, Version |-> version, SourceFile |-> "",
     Scope |-> "prod", Direct |-> isDirect,
     Metadata |-> [source |-> "Gemfile.lock", direct |-> isDirect]]

\* lines 35-44: split the content, collect the direct names, start the pass
ParseGemfileLockWithOptions ==
    /\ pc = "call"
    /\ lines' = Split(content, "\n")
    /\ directDeps' = parseDirectDependencies(Split(content, "\n"))
    /\ inGemSection' = FALSE
    /\ lineNo' = 1
    /\ dependencies' = << >>
    /\ pc' = "lines"
    /\ UNCHANGED <<content, packageJSON, options, decl, pending, verVars, scanVars, registryVars>>

\* lines 46-107: one iteration of the pass over the lines
GemLine ==
    /\ pc = "lines"
    /\ lineNo <= Len(lines)
    /\ LET line        == lines[lineNo]
           trimmedLine == TrimSpace(line)
           match       == gemLockSpecRegex(line)
           isDirect    == match.name \in directDeps
       IN  /\ inGemSection' =
                IF trimmedLine = "GEM" THEN TRUE
                ELSE IF trimmedLine \in {"PLATFORMS", "DEPENDENCIES"} THEN FALSE
                ELSE inGemSection
           /\ dependencies' =
                IF \/ trimmedLine \in {"GEM", "PLATFORMS", "DEPENDENCIES"}
                   \/ ~inGemSection
                   \/ HasPrefix(line, "  remote:")
                   \/ trimmedLine = ""
                   \/ trimmedLine = "specs:"
                   \/ ~match.ok
                   \/ (~options.IncludeTransitive /\ ~isDirect)
                THEN dependencies
                ELSE Append(dependencies,
                            RubyDependency(match.name, match.version, isDirect))
    /\ lineNo' = lineNo + 1
    /\ UNCHANGED <<pc, content, packageJSON, options, decl, pending, lines,
                   directDeps, verVars, scanVars, registryVars>>

\* line 110: the pass is over
ReturnGemfileLock ==
    /\ pc = "lines"
    /\ lineNo > Len(lines)
    /\ pc' = "done"
    /\ UNCHANGED <<lockVars, gemVars, verVars, scanVars, registryVars>>

-----------------------------------------------------------------------------
(* Inputs of the Gemfile.lock model                                        *)

\* number of lines drawn for the body of the GEM section
MaxSpecLines == 3

\* every order-preserving selection of at most n lines of a list
RECURSIVE Selections(_, _)
Selections(ls, n) ==
    IF Len(ls) = 0 \/ n = 0 THEN { << >> }
    ELSE Selections(Tail(ls), n)
         \cup { <<Head(ls)>> \o rest : rest \in Selections(Tail(ls), n - 1) }

GemSpecLines ==
    <<"    rails (7.1.0)",
      "      actionpack (= 7.1.0)",
      "    actionpack (7.1.0)",
      "    pg (1.5.4)",
      "    pg (1.5.4-x86_64-linux)",
      "     five (5.0)",
      "   three (3.0)",
      "    noversion",
      "    empty ()">>

GemDependencyLines ==
    <<"  rails (= 7.1.0)", "", "  pg", "  five">>

GemSection(body) == <<"GEM", "  remote: https://rubygems.org/", "  specs:">> \o body \o <<"">>

PlatformsSection == <<"PLATFORMS", "  ruby", "">>

DependenciesSection(body) == <<"DEPENDENCIES">> \o body \o <<"">>

\* a section that is not the GEM section but holds lines shaped like its specs
BundledSection == <<"BUNDLED WITH", "    pg (2.4.10)">>

GemfileLocks ==
    { "", "# no section at all\n    pg (1.5.4)" } \cup
    UNION { { Join(GemSection(g) \o PlatformsSection \o DependenciesSection(d)
                     \o BundledSection, "\n"),
              Join(DependenciesSection(d) \o BundledSection \o GemSection(g), "\n"),
              Join(GemSection(g), "\n") }
            : g \in Selections(GemSpecLines, MaxSpecLines),
              d \in Selections(GemDependencyLines, 2) }

IdleLock == /\ packageJSON = [nil |-> TRUE, Dependencies |-> {}, DevDependencies |-> {}]
            /\ decl = EmptyDecl
            /\ pending = << >>

InitGemfileLock ==
    /\ call = "ParseGemfileLockWithOptions"
    /\ pc = "call"
    /\ content \in GemfileLocks
    /\ options \in [IncludeTransitive : BOOLEAN]
    /\ dependencies = << >>
    /\ IdleLock
    /\ IdleGem
    /\ IdleVer
    /\ IdleScan

NextGemfileLock ==
    \/ ParseGemfileLockWithOptions
    \/ GemLine
    \/ ReturnGemfileLock

SpecGemfileLock == InitGemfileLock /\ [][NextGemfileLock]_vars


-----------------------------------------------------------------------------
(* Claims about ParseGemfileLockWithOptions                                *)

\* number of white-space characters a line starts with
LeadingBlanks(line) == RunEnd(line, 0, TRUE)

\* the line read as `name (version)` whatever its indentation
NameVersion(line) ==
    gemLockSpecRegex(SubSeq("    ", 1, SpecIndent) \o From(line, LeadingBlanks(line)))

\* line i lies after a GEM header with no PLATFORMS or DEPENDENCIES header
\* in between
InGemAt(i) ==
    \E g \in 1..(i - 1) :
      /\ TrimSpace(lines[g]) = "GEM"
      /\ \A k \in (g + 1)..(i - 1) :
           TrimSpace(lines[k]) \notin {"PLATFORMS", "DEPENDENCIES"}

SpecLineAt(i) ==
    /\ InGemAt(i)
    /\ LeadingBlanks(lines[i]) = 4
    /\ NameVersion(lines[i]).ok

ReturnedLines ==
    { i \in 1..Len(lines) :
        /\ SpecLineAt(i)
        /\ (options.IncludeTransitive \/ NameVersion(lines[i]).name \in directDeps) }

-----------------------------------------------------------------------------
(* PyPI versions: src/internal/scanner/semver/pypi.go (lines 389-799)      *)

Upper == "ABCDEFGHIJKLMNOPQRSTUVWXYZ"
Lower == "abcdefghijklmnopqrstuvwxyz"

\* strings.ToLower on ASCII
RECURSIVE ToLower(_)
ToLower(s) ==
    IF Len(s) = 0 THEN ""
    ELSE LET c == At(s, 0)
             u == Index(Upper, c)
         IN  (IF u >= 0 THEN At(Lower, u) ELSE c) \o ToLower(From(s, 1))

\* strings.TrimRight(s, ".")
RECURSIVE TrimRightDots(_)
TrimRightDots(s) ==
    IF Len(s) > 0 /\ At(s, Len(s) - 1) = "."
    THEN TrimRightDots(Slice(s, 0, Len(s) - 1)) ELSE s

\* strings.FieldsFunc(s, r == '.' || r == '_' || r == '-')
IsReleaseSep(c) == c \in {".", "_", "-"}

RECURSIVE ReleaseFields(_)
ReleaseFields(s) ==
    IF Len(s) = 0 THEN << >>
    ELSE IF IsReleaseSep(At(s, 0)) THEN ReleaseFields(From(s, 1))
    ELSE LET ends == { j \in 0..Len(s) : j = Len(s) \/ IsReleaseSep(At(s, j)) }
         IN  <<Slice(s, 0, Min(ends))>> \o ReleaseFields(From(s, Min(ends)))

compareInt(a, b) == IF a < b THEN -1 ELSE IF a > b THEN 1 ELSE 0

None == [set |-> FALSE, val |-> 0]
Some(n) == [set |-> TRUE, val |-> n]
NoPre == [set |-> FALSE, phase |-> "", number |-> 0]

PyPIError(version) ==
    [ok |-> FALSE, original |-> version, epoch |-> 0, release |-> << >>,
     pre |-> NoPre, post |-> None, dev |-> None, local |-> ""]

\* parseEpoch: digits before the first "!" when it is not the first byte
parseEpoch(s) ==
    LET idx == Index(s, "!")
        n   == Atoi(Slice(s, 0, idx))
    IN  IF idx > 0
        THEN IF n.ok THEN [ok |-> TRUE, epoch |-> n.val, s |-> From(s, idx + 1)]
                     ELSE [ok |-> FALSE, epoch |-> 0, s |-> s]
        ELSE [ok |-> TRUE, epoch |-> 0, s |-> s]

\* parseLocal: everything after the first "+"
parseLocal(s) ==
    LET idx == Index(s, "+")
    IN  IF idx >= 0 THEN [local |-> From(s, idx + 1), s |-> Slice(s, 0, idx)]
        ELSE [local |-> "", s |-> s]

\* parseOptionalNumber: 0 for the empty string
parseOptionalNumber(numStr) ==
    IF numStr # "" THEN Atoi(numStr) ELSE [ok |-> TRUE, val |-> 0]

\* the first of two spellings found in s, dotted spelling first
Tagged(s, dotted, bare) ==
    IF Index(s, dotted) >= 0
    THEN [found |-> TRUE, idx |-> Index(s, dotted), offset |-> Len(dotted)]
    ELSE IF Index(s, bare) >= 0
    THEN [found |-> TRUE, idx |-> Index(s, bare), offset |-> Len(bare)]
    ELSE [found |-> FALSE, idx |-> -1, offset |-> 0]

\* parseDev: ".dev" or "dev" and the number after it
parseDev(s) ==
    LET t   == Tagged(s, ".dev", "dev")
        num == parseOptionalNumber(From(s, t.idx + t.offset))
    IN  IF t.found
        THEN IF num.ok THEN [ok |-> TRUE, dev |-> Some(num.val), s |-> Slice(s, 0, t.idx)]
                       ELSE [ok |-> FALSE, dev |-> None, s |-> s]
        ELSE [ok |-> TRUE, dev |-> None, s |-> s]

\* parsePost: ".post" or "post" and the number after it, else a trailing
\* "-<digits>"
parsePost(s) ==
    LET t       == Tagged(s, ".post", "post")
        num     == parseOptionalNumber(From(s, t.idx + t.offset))
        idx     == LastIndex(s, "-")
        postStr == From(s, idx + 1)
    IN  IF t.found
        THEN IF num.ok THEN [ok |-> TRUE, post |-> Some(num.val), s |-> Slice(s, 0, t.idx)]
                       ELSE [ok |-> FALSE, post |-> None, s |-> s]
        ELSE IF idx >= 0 /\ postStr # "" /\ isAllDigits(postStr)
        THEN [ok |-> TRUE, post |-> Some(Atoi(postStr).val), s |-> Slice(s, 0, idx)]
        ELSE [ok |-> TRUE, post |-> None, s |-> s]

PrePhases == <<"rc", "c", "beta", "b", "alpha", "a">>

\* findEarliestPreReleasePhase: the phase token found at the lowest offset,
\* the earlier token of the list on a tie
findEarliestPreReleasePhase(s) ==
    LET found == { k \in 1..Len(PrePhases) : Index(s, PrePhases[k]) >= 0 }
        best  == CHOOSE k \in found :
                   \A j \in found :
                     \/ Index(s, PrePhases[k]) < Index(s, PrePhases[j])
                     \/ (Index(s, PrePhases[k]) = Index(s, PrePhases[j]) /\ k <= j)
    IN  IF found = {} THEN [idx |-> -1, phase |-> ""]
        ELSE [idx |-> Index(s, PrePhases[best]), phase |-> PrePhases[best]]

normalizePreReleasePhase(phase) ==
    IF phase \in {"alpha", "a"} THEN "a"
    ELSE IF phase \in {"beta", "b"} THEN "b"
    ELSE IF phase \in {"c", "rc"} THEN "rc"
    ELSE phase

\* parsePreRelease
parsePreRelease(s) ==
    LET e         == findEarliestPreReleasePhase(s)
        preNumStr == From(s, e.idx + Len(e.phase))
        num       == parseOptionalNumber(preNumStr)
    IN  IF e.idx >= 0
        THEN IF num.ok
             THEN [ok |-> TRUE, s |-> Slice(s, 0, e.idx),
                   pre |-> [set |-> TRUE, phase |-> normalizePreReleasePhase(e.phase),
                            number |-> num.val]]
             ELSE [ok |-> FALSE, s |-> Slice(s, 0, e.idx), pre |-> NoPre]
        ELSE [ok |-> TRUE, s |-> s, pre |-> NoPre]

\* parseRelease: the numbers between ".", "_" and "-"
parseRelease(s0) ==
    LET s     == TrimRightDots(s0)
        parts == ReleaseFields(s)
    IN  IF s = "" THEN [ok |-> FALSE, release |-> << >>]
        ELSE IF \E i \in 1..Len(parts) : ~Atoi(parts[i]).ok
        THEN [ok |-> FALSE, release |-> << >>]
        ELSE IF Len(parts) = 0 THEN [ok |-> FALSE, release |-> << >>]
        ELSE [ok |-> TRUE, release |-> [i \in 1..Len(parts) |-> Atoi(parts[i]).val]]

\* parsePyPIVersion: epoch, local, dev, post, pre, release, in this order
parsePyPIVersion(version) ==
    LET s0 == ToLower(TrimSpace(version))
        e  == parseEpoch(s0)
        l  == parseLocal(e.s)
        d  == parseDev(l.s)
        p  == parsePost(d.s)
        r  == parsePreRelease(p.s)
        n  == parseRelease(r.s)
    IN  IF version = "" THEN PyPIError(version)
        ELSE IF e.ok /\ d.ok /\ p.ok /\ r.ok /\ n.ok
        THEN [ok |-> TRUE, original |-> version, epoch |-> e.epoch,
              release |-> n.release, pre |-> r.pre, post |-> p.post,
              dev |-> d.dev, local |-> l.local]
        ELSE PyPIError(version)

RECURSIVE JoinInts(_)
JoinInts(nums) ==
    IF Len(nums) = 0 THEN ""
    ELSE IF Len(nums) = 1 THEN Itoa(nums[1])
    ELSE Itoa(nums[1]) \o "." \o JoinInts(Tail(nums))

\* Canon with the dev segment rendered before the post segment
PyPICanonDevFirst(v, includeEpoch) ==
    (IF includeEpoch /\ v.epoch > 0 THEN Itoa(v.epoch) \o "!" ELSE "")
    \o JoinInts(v.release)
    \o (IF v.pre.set THEN v.pre.phase \o Itoa(v.pre.number) ELSE "")
    \o (IF v.dev.set THEN ".dev" \o Itoa(v.dev.val) ELSE "")
    \o (IF v.post.set THEN ".post" \o Itoa(v.post.val) ELSE "")
    \o (IF v.local # "" THEN "+" \o v.local ELSE "")

\* PyPIVersion.Canon
PyPICanon(v, includeEpoch) ==
    (IF includeEpoch /\ v.epoch > 0 THEN Itoa(v.epoch) \o "!" ELSE "")
    \o JoinInts(v.release)
    \o (IF v.pre.set THEN v.pre.phase \o Itoa(v.pre.number) ELSE "")
    \o (IF v.post.set THEN ".post" \o Itoa(v.post.val) ELSE "")
    \o (IF v.dev.set THEN ".dev" \o Itoa(v.dev.val) ELSE "")
    \o (IF v.local # "" THEN "+" \o v.local ELSE "")

\* compareRelease: element-wise, then the shorter sequence is lower
compareRelease(v, o) ==
    LET minLen == IF Len(o.release) < Len(v.release) THEN Len(o.release)
                                                     ELSE Len(v.release)
        diff   == { i \in 1..minLen : v.release[i] # o.release[i] }
    IN  IF diff # {} THEN compareInt(v.release[Min(diff)], o.release[Min(diff)])
        ELSE compareInt(Len(v.release), Len(o.release))

phaseOrder(phase) ==
    IF phase = "a" THEN 1 ELSE IF phase = "b" THEN 2 ELSE IF phase = "rc" THEN 3 ELSE 0

comparePreRelease(v, o) ==
    IF compareInt(phaseOrder(v.phase), phaseOrder(o.phase)) # 0
    THEN compareInt(phaseOrder(v.phase), phaseOrder(o.phase))
    ELSE compareInt(v.number, o.number)

comparePreReleasePart(v, o) ==
    IF ~v.pre.set /\ o.pre.set THEN 1
    ELSE IF v.pre.set /\ ~o.pre.set THEN -1
    ELSE IF v.pre.set /\ o.pre.set THEN comparePreRelease(v.pre, o.pre)
    ELSE 0

comparePostRelease(v, o) ==
    IF ~v.post.set /\ o.post.set THEN -1
    ELSE IF v.post.set /\ ~o.post.set THEN 1
    ELSE IF v.post.set /\ o.post.set THEN compareInt(v.post.val, o.post.val)
    ELSE 0

\* compareDevRelease with a dev-release put above a version without
compareDevReleaseAbove(v, o) ==
    IF ~v.dev.set /\ o.dev.set THEN -1
    ELSE IF v.dev.set /\ ~o.dev.set THEN 1
    ELSE IF v.dev.set /\ o.dev.set THEN compareInt(v.dev.val, o.dev.val)
    ELSE 0

compareDevRelease(v, o) ==
    IF ~v.dev.set /\ o.dev.set THEN 1
    ELSE IF v.dev.set /\ ~o.dev.set THEN -1
    ELSE IF v.dev.set /\ o.dev.set THEN compareInt(v.dev.val, o.dev.val)
    ELSE 0

\* PyPIVersion.Compare
PyPICompare(v, o) ==
    IF compareInt(v.epoch, o.epoch) # 0 THEN compareInt(v.epoch, o.epoch)
    ELSE IF compareRelease(v, o) # 0 THEN compareRelease(v, o)
    ELSE IF comparePreReleasePart(v, o) # 0 THEN comparePreReleasePart(v, o)
    ELSE IF comparePostRelease(v, o) # 0 THEN comparePostRelease(v, o)
    ELSE compareDevRelease(v, o)


-----------------------------------------------------------------------------
(* npm versions: src/internal/scanner/semver/npm.go                        *)

\* the printable ASCII characters in byte order (the grave accent, which no
\* version string of the model contains, is left out)
Ascii == " !\"#$%&'()*+,-./0123456789:;<=>?@ABCDEFGHIJKLMNOPQRSTUVWXYZ[\\]^_abcdefghijklmnopqrstuvwxyz{|}~"

Ord(c) == Index(Ascii, c)

\* strings.Compare, and the operators < and > on Go strings: byte order
RECURSIVE StrCompare(_, _)
StrCompare(a, b) ==
    IF a = "" /\ b = "" THEN 0
    ELSE IF a = "" THEN -1
    ELSE IF b = "" THEN 1
    ELSE IF Ord(At(a, 0)) # Ord(At(b, 0)) THEN compareInt(Ord(At(a, 0)), Ord(At(b, 0)))
    ELSE StrCompare(From(a, 1), From(b, 1))

\* strings.TrimPrefix
TrimPrefix(s, p) == IF HasPrefix(s, p) THEN From(s, Len(p)) ELSE s

NPMError(version) ==
    [ok |-> FALSE, original |-> version, major |-> 0, minor |-> 0, patch |-> 0,
     prerelease |-> << >>, build |-> << >>]

\* parseNPMVersion
parseNPMVersion(version) ==
    LET s0       == TrimPrefix(TrimPrefix(TrimPrefix(TrimSpace(version), "v"), "V"), "=")
        plus     == Index(s0, "+")
        buildStr == From(s0, plus + 1)
        build    == IF plus >= 0 /\ buildStr # "" THEN Split(buildStr, ".") ELSE << >>
        s1       == IF plus >= 0 THEN Slice(s0, 0, plus) ELSE s0
        dash     == Index(s1, "-")
        preStr   == From(s1, dash + 1)
        pre      == IF dash >= 0 /\ preStr # "" THEN Split(preStr, ".") ELSE << >>
        s2       == IF dash >= 0 THEN Slice(s1, 0, dash) ELSE s1
        parts    == Split(s2, ".")
    IN  IF version = "" THEN NPMError(version)
        ELSE IF Len(parts) < 1 \/ Len(parts) > 3 THEN NPMError(version)
        ELSE IF \E i \in 1..Len(parts) : ~Atoi(parts[i]).ok THEN NPMError(version)
        ELSE [ok |-> TRUE, original |-> version,
              major |-> Atoi(parts[1]).val,
              minor |-> IF Len(parts) >= 2 THEN Atoi(parts[2]).val ELSE 0,
              patch |-> IF Len(parts) >= 3 THEN Atoi(parts[3]).val ELSE 0,
              prerelease |-> pre, build |-> build]

\* NPMVersion.Canon
NPMCanon(v, includeEpoch) ==
    Itoa(v.major) \o "." \o Itoa(v.minor) \o "." \o Itoa(v.patch)
    \o (IF Len(v.prerelease) > 0 THEN "-" \o Join(v.prerelease, ".") ELSE "")
    \o (IF Len(v.build) > 0 THEN "+" \o Join(v.build, ".") ELSE "")

compareCoreVersion(v, o) ==
    IF compareInt(v.major, o.major) # 0 THEN compareInt(v.major, o.major)
    ELSE IF compareInt(v.minor, o.minor) # 0 THEN compareInt(v.minor, o.minor)
    ELSE compareInt(v.patch, o.patch)

\* comparePrereleaseIdentifier with a word put below a number as well
comparePrereleaseIdentifierNumericFirst(vPart, oPart) ==
    LET vNum == Atoi(vPart)
        oNum == Atoi(oPart)
    IN  IF vNum.ok /\ oNum.ok THEN compareInt(vNum.val, oNum.val)
        ELSE IF vNum.ok /\ ~oNum.ok THEN -1
        ELSE IF ~vNum.ok /\ oNum.ok THEN -1
        ELSE StrCompare(vPart, oPart)

\* comparePrereleaseIdentifier: numbers by value, a number below a word,
\* words in byte order
comparePrereleaseIdentifier(vPart, oPart) ==
    LET vNum == Atoi(vPart)
        oNum == Atoi(oPart)
    IN  IF vNum.ok /\ oNum.ok THEN compareInt(vNum.val, oNum.val)
        ELSE IF vNum.ok /\ ~oNum.ok THEN -1
        ELSE IF ~vNum.ok /\ oNum.ok THEN 1
        ELSE StrCompare(vPart, oPart)

comparePrereleaseIdentifiers(v, o) ==
    LET minLen == IF Len(o.prerelease) < Len(v.prerelease) THEN Len(o.prerelease)
                                                           ELSE Len(v.prerelease)
        diff   == { i \in 1..minLen :
                      comparePrereleaseIdentifier(v.prerelease[i], o.prerelease[i]) # 0 }
    IN  IF diff # {}
        THEN comparePrereleaseIdentifier(v.prerelease[Min(diff)], o.prerelease[Min(diff)])
        ELSE compareInt(Len(v.prerelease), Len(o.prerelease))

\* comparePrerelease with two releases ordered by their build metadata
comparePrereleaseThenBuild(v, o) ==
    IF Len(v.prerelease) = 0 /\ Len(o.prerelease) > 0 THEN 1
    ELSE IF Len(v.prerelease) > 0 /\ Len(o.prerelease) = 0 THEN -1
    ELSE IF Len(v.prerelease) = 0 /\ Len(o.prerelease) = 0
    THEN compareInt(Len(v.build), Len(o.build))
    ELSE comparePrereleaseIdentifiers(v, o)

comparePrerelease(v, o) ==
    IF Len(v.prerelease) = 0 /\ Len(o.prerelease) > 0 THEN 1
    ELSE IF Len(v.prerelease) > 0 /\ Len(o.prerelease) = 0 THEN -1
    ELSE IF Len(v.prerelease) = 0 /\ Len(o.prerelease) = 0 THEN 0
    ELSE comparePrereleaseIdentifiers(v, o)

\* NPMVersion.Compare
NPMCompare(v, o) ==
    IF compareCoreVersion(v, o) # 0 THEN compareCoreVersion(v, o)
    ELSE comparePrerelease(v, o)

-----------------------------------------------------------------------------
(* Maven versions: src/internal/scanner/semver/maven.go                    *)

\* ^\d+(?:\.\d+)*$
IsDottedNumeric(s) ==
    LET parts == Split(s, ".")
    IN  \A i \in 1..Len(parts) : isAllDigits(parts[i])

\* length of the longest prefix of the form \d+(?:\.\d+)*, 0 when none
NumericPrefixLen(s) ==
    LET lens == { n \in 1..Len(s) : IsDottedNumeric(Slice(s, 0, n)) }
    IN  IF lens = {} THEN 0 ELSE Max(lens)

\* \d{8}\.\d{6}
IsTimestamp(s) ==
    /\ Len(s) = 15
    /\ isAllDigits(Slice(s, 0, 8))
    /\ At(s, 8) = "."
    /\ isAllDigits(Slice(s, 9, 15))

ReNoMatch == [ok |-> FALSE, g1 |-> "", g2 |-> "", g3 |-> ""]

\* mavenBuildRegex = ^(\d+(?:\.\d+)*)(?:[-.]?(\d{8}\.\d{6})-(\d+))?$
mavenBuildRegex(version) ==
    LET d      == LastIndex(version, "-")
        num    == From(version, d + 1)
        ts     == Slice(version, d - 15, d)
        before == Slice(version, 0, d - 15)
        base   == IF IsDottedNumeric(before) THEN before
                  ELSE Slice(before, 0, Len(before) - 1)
    IN  IF IsDottedNumeric(version)
        THEN [ok |-> TRUE, g1 |-> version, g2 |-> "", g3 |-> ""]
        ELSE IF /\ d >= 16
                /\ isAllDigits(num)
                /\ IsTimestamp(ts)
                /\ \/ IsDottedNumeric(before)
                   \/ /\ At(before, Len(before) - 1) \in {"-", "."}
                      /\ IsDottedNumeric(Slice(before, 0, Len(before) - 1))
        THEN [ok |-> TRUE, g1 |-> base, g2 |-> ts, g3 |-> num]
        ELSE ReNoMatch

MavenQualifiers == {"RELEASE", "FINAL", "SNAPSHOT", "GA", "BUILD", "SP", "RC", "PRE"}

\* RELEASE|FINAL|SNAPSHOT|GA|BUILD|SP|RC|M\d+|PRE
IsQualifier(q) ==
    \/ q \in MavenQualifiers
    \/ (HasPrefix(q, "M") /\ isAllDigits(From(q, 1)))

\* mavenQualifierRegex =
\*   ^(\d+(?:\.\d+)*)(?:[-.]?(RELEASE|FINAL|SNAPSHOT|GA|BUILD|SP|RC|M\d+|PRE))?$
mavenQualifierRegex(version) ==
    LET n    == NumericPrefixLen(version)
        rest == From(version, n)
    IN  IF n = 0 THEN ReNoMatch
        ELSE IF rest = "" THEN [ok |-> TRUE, g1 |-> version, g2 |-> "", g3 |-> ""]
        ELSE IF IsQualifier(rest)
        THEN [ok |-> TRUE, g1 |-> Slice(version, 0, n), g2 |-> rest, g3 |-> ""]
        ELSE IF At(rest, 0) \in {"-", "."} /\ IsQualifier(From(rest, 1))
        THEN [ok |-> TRUE, g1 |-> Slice(version, 0, n), g2 |-> From(rest, 1), g3 |-> ""]
        ELSE ReNoMatch

\* canonicalizeMavenVersion that keeps the case of the other qualifiers
canonicalizeMavenMatchesKeepCase(version, b, q) ==
    IF b.ok
    THEN IF b.g2 # "" /\ b.g3 # "" THEN b.g1 \o "-build." \o b.g3 ELSE b.g1
    ELSE IF q.ok
    THEN IF q.g2 \in {"RELEASE", "FINAL", "GA"} THEN q.g1
         ELSE IF q.g2 = "SNAPSHOT" THEN q.g1 \o "-snapshot"
         ELSE IF q.g2 = "BUILD" THEN q.g1 \o "-build"
         ELSE IF q.g2 = "" THEN q.g1
         ELSE q.g1 \o "-" \o q.g2
    ELSE version

\* canonicalizeMavenVersion, with the matches of the build pattern (b) and of
\* the qualifier pattern (q); the build pattern is tried first
canonicalizeMavenMatches(version, b, q) ==
    IF b.ok
    THEN IF b.g2 # "" /\ b.g3 # "" THEN b.g1 \o "-build." \o b.g3 ELSE b.g1
    ELSE IF q.ok
    THEN IF q.g2 \in {"RELEASE", "FINAL", "GA"} THEN q.g1
         ELSE IF q.g2 = "SNAPSHOT" THEN q.g1 \o "-snapshot"
         ELSE IF q.g2 = "BUILD" THEN q.g1 \o "-build"
         ELSE IF q.g2 = "" THEN q.g1
         ELSE q.g1 \o "-" \o ToLower(q.g2)
    ELSE version

\* canonicalizeMavenVersion
canonicalizeMavenVersion(version) ==
    canonicalizeMavenMatches(version, mavenBuildRegex(version),
                             mavenQualifierRegex(version))

\* mavenRangeRegex = ^[\[\(]([^,\]]*),([^\]\)]*)[\]\)]$
mavenRangeRegex(version) ==
    LET c  == Index(version, ",")
        g1 == Slice(version, 1, c)
        g2 == Slice(version, c + 1, Len(version) - 1)
    IN  IF /\ Len(version) >= 3
           /\ At(version, 0) \in {"[", "("}
           /\ At(version, Len(version) - 1) \in {"]", ")"}
           /\ c >= 1
           /\ ~Contains(g1, "]")
           /\ ~Contains(g2, "]")
           /\ ~Contains(g2, ")")
        THEN [ok |-> TRUE, g1 |-> g1, g2 |-> g2, g3 |-> ""]
        ELSE ReNoMatch

isMavenVersionRange(version) == mavenRangeRegex(version).ok

\* one bound of a range left as it is written
canonicalizeMavenBoundRaw(bound) == bound

\* one bound of a range: trimmed, canonical when it is not empty
canonicalizeMavenBound(bound) ==
    IF bound # "" THEN canonicalizeMavenVersion(bound) ELSE ""

\* the rendering of a range from its canonical bounds
renderMavenRange(lower, upper) ==
    IF lower = "" /\ upper = "" THEN "*"
    ELSE IF lower = "" THEN "<=" \o upper
    ELSE IF upper = "" THEN ">=" \o lower
    ELSE lower \o "-" \o upper

\* canonicalizeMavenRange, with the match of the range pattern
canonicalizeMavenRangeMatch(rangeStr, m) ==
    IF ~m.ok THEN rangeStr
    ELSE renderMavenRange(canonicalizeMavenBound(TrimSpace(m.g1)),
                          canonicalizeMavenBound(TrimSpace(m.g2)))

\* canonicalizeMavenRange
canonicalizeMavenRange(rangeStr) ==
    canonicalizeMavenRangeMatch(rangeStr, mavenRangeRegex(rangeStr))

\* parseMavenVersion
parseMavenVersion(version) ==
    IF version = "" THEN [ok |-> FALSE, original |-> version, version |-> "",
                          isRange |-> FALSE]
    ELSE IF isMavenVersionRange(version)
    THEN [ok |-> TRUE, original |-> version,
          version |-> canonicalizeMavenRange(version), isRange |-> TRUE]
    ELSE [ok |-> TRUE, original |-> version,
          version |-> canonicalizeMavenVersion(version), isRange |-> FALSE]

\* MavenVersion.Canon
MavenCanon(v, includeEpoch) == v.version

\* MavenVersion.Compare
MavenCompare(v, o) == StrCompare(v.version, o.version)


-----------------------------------------------------------------------------
(* The version systems behind the System and Version interfaces: a client  *)
(* parses strings with one system, renders the canonical forms, parses the *)
(* canonical forms again and compares the parsed versions pairwise.        *)

\* cargoSystem.Parse: not implemented, an error for every input
cargoParse(version) == [ok |-> FALSE, original |-> version]

\* System.Parse
Parse(sys, version) ==
    IF sys = "PyPI" THEN parsePyPIVersion(version)
    ELSE IF sys = "npm" THEN parseNPMVersion(version)
    ELSE IF sys = "cargo" THEN cargoParse(version)
    ELSE parseMavenVersion(version)

\* Version.Canon
Canon(sys, v, includeEpoch) ==
    IF sys = "PyPI" THEN PyPICanon(v, includeEpoch)
    ELSE IF sys = "npm" THEN NPMCanon(v, includeEpoch)
    ELSE MavenCanon(v, includeEpoch)

\* Version.Compare
Compare(sys, v, o) ==
    IF sys = "PyPI" THEN PyPICompare(v, o)
    ELSE IF sys = "npm" THEN NPMCompare(v, o)
    ELSE MavenCompare(v, o)

ParseVersions ==
    /\ pc = "Parse"
    /\ parsed' = [i \in DOMAIN raw |-> Parse(system, raw[i])]
    /\ pc' = "Canon"
    /\ UNCHANGED <<content, options, dependencies, packageJSON, decl, pending>>
    /\ UNCHANGED <<gemVars, scanVars, registryVars>>
    /\ UNCHANGED <<raw, system, canon, reparsed, cmp>>

\* Canon is only reachable through a Version, which a failed Parse does not
\* return
CanonVersions ==
    /\ pc = "Canon"
    /\ canon' = [i \in DOMAIN raw |->
                   IF parsed[i].ok THEN Canon(system, parsed[i], TRUE) ELSE ""]
    /\ pc' = "Reparse"
    /\ UNCHANGED <<content, options, dependencies, packageJSON, decl, pending>>
    /\ UNCHANGED <<gemVars, scanVars, registryVars>>
    /\ UNCHANGED <<raw, system, parsed, reparsed, cmp>>

ReparseCanon ==
    /\ pc = "Reparse"
    /\ reparsed' = [i \in DOMAIN raw |-> Parse(system, canon[i])]
    /\ pc' = "Compare"
    /\ UNCHANGED <<content, options, dependencies, packageJSON, decl, pending>>
    /\ UNCHANGED <<gemVars, scanVars, registryVars>>
    /\ UNCHANGED <<raw, system, parsed, canon, cmp>>

CompareVersions ==
    /\ pc = "Compare"
    /\ cmp' = [i \in DOMAIN raw |-> [j \in DOMAIN raw |->
                 IF parsed[i].ok /\ parsed[j].ok
                 THEN Compare(system, parsed[i], parsed[j]) ELSE 0]]
    /\ pc' = "done"
    /\ UNCHANGED <<content, options, dependencies, packageJSON, decl, pending>>
    /\ UNCHANGED <<gemVars, scanVars, registryVars>>
    /\ UNCHANGED <<raw, system, parsed, canon, reparsed>>

NextVersions ==
    \/ ParseVersions
    \/ CanonVersions
    \/ ReparseCanon
    \/ CompareVersions

\* number of versions compared with each other
MaxVersions == 3

PyPIVersions ==
    {"1.0", "1.0.0", "-1!1.0", "1!0.9", "1.0a1", "1.0RC1", "1.0.post1",
     "1.0.dev0", "1.0+local", "abc"}

NPMVersions ==
    {"1.0.0", "v1.0", "1.0.0-alpha", "1.0.0-alpha.1", "1.0.0-1", "1.0.0-01",
     "1.0.0+b2", "1.2.3.4"}

MavenVersions ==
    {"1.0.0", "1.0.0-RELEASE", "1.0.0-SNAPSHOT", "1.10", "1.9", "[1.0,2.0)", ""}

Versions(sys) ==
    IF sys = "PyPI" THEN PyPIVersions
    ELSE IF sys = "npm" THEN NPMVersions
    ELSE MavenVersions

IdleCall ==
    /\ content = ""
    /\ options = [IncludeTransitive |-> FALSE]
    /\ dependencies = << >>

InitCompare ==
    /\ call = "Compare"
    /\ pc = "Parse"
    /\ system \in {"PyPI", "npm", "Maven"}
    /\ raw \in [1..MaxVersions -> Versions(system)]
    /\ parsed = << >>
    /\ canon = << >>
    /\ reparsed = << >>
    /\ cmp = << >>
    /\ IdleCall
    /\ IdleScan
    /\ IdleLock
    /\ IdleGem

SpecCompare == InitCompare /\ [][NextVersions]_vars

\* PyPI strings put together from the segments of the grammar, in the order
\* epoch, release, pre-release, post-release, dev-release, local
PyPIEpochs == {"", "0!", "1!", "-1!"}

PyPIReleases == {"1", "1.0", "01.02", "2_1"}

PyPIPres == {"", "a1", "RC2", ".beta"}

PyPIPosts == {"", ".post1", "post", "-3"}

PyPIDevs == {"", ".dev0", "dev2"}

PyPILocals == {"", "+ubuntu.1", "+!", "+a!b"}

PyPIStrings ==
    { e \o r \o p \o q \o d \o l :
        e \in PyPIEpochs, r \in PyPIReleases, p \in PyPIPres,
        q \in PyPIPosts, d \in PyPIDevs, l \in PyPILocals }

InitCanon ==
    /\ call = "Canon"
    /\ pc = "Parse"
    /\ system = "PyPI"
    /\ raw \in { <<x>> : x \in PyPIStrings }
    /\ parsed = << >>
    /\ canon = << >>
    /\ reparsed = << >>
    /\ cmp = << >>
    /\ IdleCall
    /\ IdleScan
    /\ IdleLock
    /\ IdleGem

SpecCanon == InitCanon /\ [][NextVersions]_vars

-----------------------------------------------------------------------------
(* Claims about the version systems                                        *)

Done == pc = "done"

Accepted == { i \in DOMAIN raw : parsed[i].ok }

\* C8 as stated: for every string x that PyPI.Parse accepts,
\* PyPI.Parse(Parse(x).Canon(true)) succeeds and its Canon(true) equals
\* Parse(x).Canon(true).
C8_CanonIdempotent ==
    (Done /\ system = "PyPI") =>
        \A i \in Accepted :
            /\ reparsed[i].ok
            /\ Canon(system, reparsed[i], TRUE) = canon[i]

\* C8, amended: PyPI canonicalisation is idempotent for every accepted
\* string except those that carry a "!" in the local segment behind an
\* epoch that is not positive: the canonical form parses again and its
\* canonical form is the same string.
C8_CanonIdempotentUnlessBangInLocal ==
    (Done /\ system = "PyPI") =>
        \A i \in Accepted :
            ~(parsed[i].epoch <= 0 /\ Contains(parsed[i].local, "!")) =>
                /\ reparsed[i].ok
                /\ Canon(system, reparsed[i], TRUE) = canon[i]

C8_Witness ==
    /\ Done
    /\ system = "PyPI"
    /\ \E i \in Accepted :
          /\ Contains(parsed[i].local, "!")
          /\ parsed[i].epoch > 0
          /\ parsed[i].pre.set
          /\ parsed[i].post.set
          /\ parsed[i].dev.set
          /\ canon[i] # raw[i]
          /\ Canon(system, reparsed[i], TRUE) = canon[i]

\* C9: within PyPI and within npm, Compare is a strict weak ordering of the
\* parsed versions: Compare(a,b) = -Compare(b,a); a < b and b < c give
\* a < c; a = b and b = c give a = c.
C9_StrictWeakOrdering ==
    (Done /\ system \in {"PyPI", "npm"}) =>
        \A a, b, c \in Accepted :
            /\ cmp[a][b] = -cmp[b][a]
            /\ (cmp[a][b] < 0 /\ cmp[b][c] < 0) => cmp[a][c] < 0
            /\ (cmp[a][b] = 0 /\ cmp[b][c] = 0) => cmp[a][c] = 0

C9_Witness ==
    /\ Done
    /\ system = "npm"
    /\ \E a, b, c \in Accepted :
          /\ cmp[a][b] < 0
          /\ cmp[b][c] < 0
          /\ cmp[a][c] < 0
          /\ Len(parsed[a].prerelease) > 0
          /\ Len(parsed[b].prerelease) > 0
          /\ Len(parsed[c].prerelease) = 0

\* C10 as stated: for two versions parsed by the same system (PyPI, npm or
\* Maven), equal canonical forms imply Compare = 0; for Maven, Compare is
\* the sign of the string comparison of the two canonical forms.
C10_EqualCanonComparesEqual ==
    Done =>
        \A a, b \in Accepted :
            /\ canon[a] = canon[b] => cmp[a][b] = 0
            /\ system = "Maven" => cmp[a][b] = StrCompare(canon[a], canon[b])

-----------------------------------------------------------------------------
(* Ordering of PyPI and npm versions: two versions x and y of one system   *)
(* and a third that is x with a descriptive segment appended.              *)

PyPIOrderReleases == {"1.0", "1.0.0", "1.1"}

PyPIOrderSuffixes ==
    {"", "a1", "a2", "b1", "rc1", ".post1", ".post2", ".dev0", ".dev1",
     "a1.post1", ".post1.dev0"}

PyPIOrderVersions ==
    { r \o x : r \in PyPIOrderReleases, x \in PyPIOrderSuffixes }
    \cup {"1!1.0", "0!1.0a1", "abc"}

NPMOrderCores == {"1.0.0", "1.0.1", "1.1.0", "2.0.0"}

NPMOrderPrereleases ==
    {"", "-alpha", "-alpha.1", "-alpha.beta", "-beta", "-1", "-2", "-0", "--1"}

NPMOrderVersions ==
    { c \o x : c \in NPMOrderCores, x \in NPMOrderPrereleases }

OrderVersions(sys) ==
    IF sys = "PyPI" THEN PyPIOrderVersions ELSE NPMOrderVersions

\* the local segment of PyPI, the build metadata of npm
DescriptiveSegments(sys) ==
    IF sys = "PyPI" THEN {"+local", "+a!b"} ELSE {"+b.2", "+001"}

InitOrder ==
    /\ call = "Compare"
    /\ pc = "Parse"
    /\ system \in {"PyPI", "npm"}
    /\ \E x, y \in OrderVersions(system) :
         \E seg \in DescriptiveSegments(system) :
            raw = <<x, y, x \o seg>>
    /\ parsed = << >>
    /\ canon = << >>
    /\ reparsed = << >>
    /\ cmp = << >>
    /\ IdleCall
    /\ IdleScan
    /\ IdleLock
    /\ IdleGem

SpecOrder == InitOrder /\ [][NextVersions]_vars

-----------------------------------------------------------------------------
(* Claims about the ordering                                               *)

Sgn(d) == IF d < 0 THEN -1 ELSE IF d > 0 THEN 1 ELSE 0

\* the first entry of a sequence of signs that is not 0, 0 when there is none
FirstDecisive(signs) ==
    LET nz == { i \in 1..Len(signs) : signs[i] # 0 }
    IN  IF nz = {} THEN 0 ELSE signs[Min(nz)]

IsStrictPrefix(r, t) ==
    /\ Len(r) < Len(t)
    /\ \A i \in 1..Len(r) : r[i] = t[i]

ReleaseOrder(r, t) ==
    IF IsStrictPrefix(r, t) THEN -1
    ELSE IF IsStrictPrefix(t, r) THEN 1
    ELSE LET d == { i \in 1..Len(r) : i <= Len(t) /\ r[i] # t[i] }
         IN  IF d = {} THEN 0 ELSE Sgn(r[Min(d)] - t[Min(d)])

PhaseRank(phase) == CHOOSE k \in 1..3 : <<"a", "b", "rc">>[k] = phase

PreOrder(v, o) ==
    IF ~v.pre.set /\ ~o.pre.set THEN 0
    ELSE IF ~v.pre.set THEN 1
    ELSE IF ~o.pre.set THEN -1
    ELSE FirstDecisive(<<Sgn(PhaseRank(v.pre.phase) - PhaseRank(o.pre.phase)),
                         Sgn(v.pre.number - o.pre.number)>>)

PostOrder(v, o) ==
    IF ~v.post.set /\ ~o.post.set THEN 0
    ELSE IF ~v.post.set THEN -1
    ELSE IF ~o.post.set THEN 1
    ELSE Sgn(v.post.val - o.post.val)

DevOrder(v, o) ==
    IF ~v.dev.set /\ ~o.dev.set THEN 0
    ELSE IF ~v.dev.set THEN 1
    ELSE IF ~o.dev.set THEN -1
    ELSE Sgn(v.dev.val - o.dev.val)

\* C11: PyPI Compare is decided by the first differing component in the
\* order epoch, release, pre-release, post-release, dev-release: a strict
\* prefix of a release is lower; no pre-release is above any pre-release and
\* pre-releases go by phase a < b < rc, then number; no post-release is below
\* any post-release; no dev-release is above any dev-release; in particular
\* Compare(1.0.0, 1.0.0.dev0) = 1.
C11_FirstDifferingComponent ==
    (Done /\ system = "PyPI") =>
        /\ \A a, b \in Accepted :
             cmp[a][b] = FirstDecisive(<<Sgn(parsed[a].epoch - parsed[b].epoch),
                                         ReleaseOrder(parsed[a].release, parsed[b].release),
                                         PreOrder(parsed[a], parsed[b]),
                                         PostOrder(parsed[a], parsed[b]),
                                         DevOrder(parsed[a], parsed[b])>>)
        /\ (raw[1] = "1.0.0" /\ raw[2] = "1.0.0.dev0") => cmp[1][2] = 1

\* two accepted PyPI versions of equal epoch, release and pre-release that
\* both carry a post-release, one of them a dev-release as well
C11_Witness ==
    /\ Done
    /\ system = "PyPI"
    /\ {1, 2} \subseteq Accepted
    /\ parsed[1].release = parsed[2].release
    /\ parsed[1].post.set /\ parsed[2].post.set
    /\ parsed[1].post.val = parsed[2].post.val
    /\ parsed[1].dev.set /\ ~parsed[2].dev.set
    /\ cmp[1][2] = -1

\* a numeric identifier in the sense of semver 2.0.0: digits only
IsNumericIdentifier(id) == isAllDigits(id)

IdentifierOrder(x, y) ==
    IF IsNumericIdentifier(x) /\ IsNumericIdentifier(y) THEN Sgn(DecVal(x) - DecVal(y))
    ELSE IF IsNumericIdentifier(x) THEN -1
    ELSE IF IsNumericIdentifier(y) THEN 1
    ELSE StrCompare(x, y)

PrereleaseOrder(p, q) ==
    IF Len(p) = 0 /\ Len(q) = 0 THEN 0
    ELSE IF Len(p) = 0 THEN 1
    ELSE IF Len(q) = 0 THEN -1
    ELSE LET d == { i \in 1..Len(p) : i <= Len(q) /\ IdentifierOrder(p[i], q[i]) # 0 }
         IN  IF d # {} THEN IdentifierOrder(p[Min(d)], q[Min(d)])
             ELSE Sgn(Len(p) - Len(q))

\* C12: npm Compare goes by (major, minor, patch) first; with equal triples
\* a version without prerelease is above one with; prereleases go identifier
\* by identifier, two numeric identifiers by value, a numeric identifier
\* below an alphanumeric one, two alphanumeric identifiers in lexical order,
\* and with all shared identifiers equal the longer list is above.
C12_SemverPrecedence ==
    (Done /\ system = "npm") =>
        \A a, b \in Accepted :
            cmp[a][b] = FirstDecisive(<<Sgn(parsed[a].major - parsed[b].major),
                                        Sgn(parsed[a].minor - parsed[b].minor),
                                        Sgn(parsed[a].patch - parsed[b].patch),
                                        PrereleaseOrder(parsed[a].prerelease,
                                                        parsed[b].prerelease)>>)

\* two versions differ in nothing but the descriptive segment
SameButSegment(a, b) ==
    IF system = "PyPI"
    THEN [parsed[a] EXCEPT !.local = "", !.original = ""]
           = [parsed[b] EXCEPT !.local = "", !.original = ""]
    ELSE [parsed[a] EXCEPT !.build = << >>, !.original = ""]
           = [parsed[b] EXCEPT !.build = << >>, !.original = ""]

\* C13: npm versions that differ only in build metadata and PyPI versions
\* that differ only in the local segment compare as 0, and changing the
\* segment of either operand leaves Compare against a third version as it
\* was.
C13_SegmentNeverOrders ==
    Done =>
        \A a, b \in Accepted :
            SameButSegment(a, b) =>
                /\ cmp[a][b] = 0
                /\ \A c \in Accepted :
                      /\ cmp[a][c] = cmp[b][c]
                      /\ cmp[c][a] = cmp[c][b]

\* a version, the same version with another segment, and a third one that
\* is ordered against both
C13_Witness ==
    /\ Done
    /\ Accepted = {1, 2, 3}
    /\ canon[1] # canon[3]
    /\ SameButSegment(1, 3)
    /\ cmp[1][2] # 0
    /\ cmp[3][2] = cmp[1][2]

-----------------------------------------------------------------------------
(* Normalize: src/internal/scanner/semver/npm.go (lines 373-381)           *)

\* Normalize with the outcome of Parse reduced to a string on error
NormalizeParsedTrimmed(sys, version, v) ==
    IF ~v.ok THEN TrimSpace(version) ELSE Canon(sys, v, TRUE)

\* Normalize, with the outcome v of system.Parse(version)
NormalizeParsed(sys, version, v) ==
    IF ~v.ok THEN version ELSE Canon(sys, v, TRUE)

\* Normalize
Normalize(sys, version) == NormalizeParsed(sys, version, Parse(sys, version))

NormalizeVersions ==
    /\ pc = "Normalize"
    /\ parsed' = [i \in DOMAIN raw |-> Parse(system, raw[i])]
    /\ canon' = [i \in DOMAIN raw |-> Normalize(system, raw[i])]
    /\ pc' = "done"
    /\ UNCHANGED <<content, options, dependencies, packageJSON, decl, pending>>
    /\ UNCHANGED <<gemVars, scanVars, registryVars>>
    /\ UNCHANGED <<raw, system, reparsed, cmp>>

\* strings no system accepts, with white space that a copy must keep
RejectedVersions == {"", " abc ", "1..2 ", "x.y"}

NormalizeInputs(sys) ==
    IF sys = "cargo" THEN NPMVersions \cup RejectedVersions
    ELSE Versions(sys) \cup RejectedVersions

InitNormalize ==
    /\ call = "Normalize"
    /\ pc = "Normalize"
    /\ system \in {"PyPI", "npm", "Maven", "cargo"}
    /\ \E x, y \in NormalizeInputs(system) : raw = <<x, y>>
    /\ parsed = << >>
    /\ canon = << >>
    /\ reparsed = << >>
    /\ cmp = << >>
    /\ IdleCall
    /\ IdleScan
    /\ IdleLock
    /\ IdleGem

SpecNormalize == InitNormalize /\ [][NormalizeVersions]_vars

\* C14: Normalize(system, raw) returns Parse(raw).Canon(true) when
\* system.Parse(raw) succeeds and raw itself, character for character, when
\* it fails; for the cargo stub it is the identity.
C14_NormalizeNeverFails ==
    Done =>
        \A i \in DOMAIN raw :
            /\ i \in Accepted => canon[i] = Canon(system, Parse(system, raw[i]), TRUE)
            /\ i \notin Accepted => canon[i] = raw[i]
            /\ system = "cargo" => canon[i] = raw[i]

\* one string that is rewritten and one rejected string with white space
\* around it that comes back as it was
C14_Witness ==
    /\ Done
    /\ reparsed = << >>
    /\ 1 \in Accepted
    /\ canon[1] # raw[1]
    /\ 2 \notin Accepted
    /\ TrimSpace(raw[2]) # raw[2]
    /\ canon[2] = raw[2]

-----------------------------------------------------------------------------
(* Maven plain versions and ranges through Parse and Canon                 *)
(* src/internal/scanner/semver/maven.go (lines 87-180)                     *)

MavenBases == {"1.0.0", "2.7", "3"}

MavenSeparators == {"-", "."}

\* qualifiers of the pattern, and letter-led qualifiers outside it
MavenTrailingQualifiers ==
    {"RELEASE", "FINAL", "GA", "SNAPSHOT", "BUILD", "SP", "RC", "PRE", "M1",
     "M12", "ALPHA", "alpha", "RC1", "snapshot", "Final"}

MavenPlainVersions ==
    { b \o s \o q : b \in MavenBases, s \in MavenSeparators,
                    q \in MavenTrailingQualifiers }

MavenOpenings == {"[", "("}

MavenClosings == {"]", ")"}

MavenBounds == {"", "1.0", "2.0.0-RELEASE", " 1.5 ", "1.0-SNAPSHOT", "2.0.ALPHA"}

MavenRanges ==
    { o \o lo \o "," \o hi \o c : o \in MavenOpenings, lo \in MavenBounds,
                                  hi \in MavenBounds, c \in MavenClosings }

InitMaven ==
    /\ call = "Canon"
    /\ pc = "Parse"
    /\ system = "Maven"
    /\ \E x \in MavenPlainVersions \cup MavenRanges : raw = <<x>>
    /\ parsed = << >>
    /\ canon = << >>
    /\ reparsed = << >>
    /\ cmp = << >>
    /\ IdleCall
    /\ IdleScan
    /\ IdleLock
    /\ IdleGem

SpecMaven == InitMaven /\ [][NextVersions]_vars

\* the canonical form the qualifier rules give to base + separator + q
QualifiedCanon(b, q) ==
    IF q \in {"RELEASE", "FINAL", "GA"} THEN b
    ELSE IF q = "SNAPSHOT" THEN b \o "-snapshot"
    ELSE IF q = "BUILD" THEN b \o "-build"
    ELSE b \o "-" \o ToLower(q)

\* C15 (as stated): a dotted numeric base followed by - or . and a qualifier
\* has the canonical form base for RELEASE, FINAL and GA, base-snapshot for
\* SNAPSHOT, base-build for BUILD, and base-lowercase(qualifier) for any
\* other qualifier.
C15_QualifierCanon ==
    Done =>
        \A b \in MavenBases, s \in MavenSeparators, q \in MavenTrailingQualifiers :
            raw[1] = b \o s \o q => canon[1] = QualifiedCanon(b, q)

\* C15 (amended): the rules hold for the qualifiers of the pattern (RELEASE,
\* FINAL, GA, SNAPSHOT, BUILD, SP, RC, PRE, M and digits, in upper case); a
\* version with any other letter-led qualifier is returned as it was written.
C15_VocabularyQualifierCanon ==
    Done =>
        \A b \in MavenBases, s \in MavenSeparators, q \in MavenTrailingQualifiers :
            raw[1] = b \o s \o q =>
                canon[1] = IF IsQualifier(q) THEN QualifiedCanon(b, q) ELSE raw[1]

\* a milestone qualifier behind a dot, lower-cased and joined by a hyphen
C15_Witness ==
    /\ Done
    /\ raw[1] = "2.7.M12"
    /\ canon[1] = "2.7-m12"

\* the rendering of a range from its bounds, each canonical as a plain version
RangeCanon(lo, hi) ==
    IF lo = "" /\ hi = "" THEN "*"
    ELSE IF hi = "" THEN ">=" \o canonicalizeMavenVersion(lo)
    ELSE IF lo = "" THEN "<=" \o canonicalizeMavenVersion(hi)
    ELSE canonicalizeMavenVersion(lo) \o "-" \o canonicalizeMavenVersion(hi)

\* C16: for a range (opening bracket, lower bound, comma, upper bound, closing
\* bracket) Parse canonicalises each non-empty bound as a plain version and
\* Canon renders lower-upper, >=lower, <=upper or *, whatever the brackets;
\* the bounds are taken without the white space around them.
C16_RangeCanon ==
    Done =>
        \A o \in MavenOpenings, lo \in MavenBounds, hi \in MavenBounds,
           c \in MavenClosings :
            raw[1] = o \o lo \o "," \o hi \o c =>
                /\ parsed[1].isRange
                /\ canon[1] = RangeCanon(TrimSpace(lo), TrimSpace(hi))

\* a half-open range whose only bound carries a qualifier that is rewritten
C16_Witness ==
    /\ Done
    /\ raw[1] = "(2.0.0-RELEASE,]"
    /\ canon[1] = ">=2.0.0"

-----------------------------------------------------------------------------
(* yarn.lock: src/internal/scanner/parsers/yarn_lock.go                    *)

\* DetectYarnVersion without the patch marker
DetectYarnVersionNoPatch(c) ==
    IF Contains(c, "\"@npm:") /\ ~Contains(c, "__metadata:") THEN "classic"
    ELSE IF \/ Contains(c, "__metadata:")
            \/ Contains(c, "specifiers")
            \/ Contains(c, "@workspace:")
    THEN "berry"
    ELSE "classic"

\* DetectYarnVersion
DetectYarnVersion(c) ==
    IF Contains(c, "\"@npm:") /\ ~Contains(c, "__metadata:") THEN "classic"
    ELSE IF \/ Contains(c, "__metadata:")
            \/ Contains(c, "specifiers")
            \/ Contains(c, "@workspace:")
            \/ Contains(c, "@patch:")
    THEN "berry"
    ELSE "classic"

\* first offset of sub in s at or after from, or -1
IndexFrom(s, sub, from) ==
    IF Index(From(s, from), sub) < 0 THEN -1 ELSE Index(From(s, from), sub) + from

\* offset in rest of the @ that ends (?:@[^/]+/)?[^@]+ matched from offset 0,
\* or -1; exclude is the set of characters the name may not hold besides @
HeaderNameEnd(rest, exclude) ==
    LET slash == Index(rest, "/")
        start == IF HasPrefix(rest, "@") THEN slash + 1 ELSE 0
        at    == IndexFrom(rest, "@", start)
    IN  IF HasPrefix(rest, "@") /\ slash < 2 THEN -1
        ELSE IF at <= start THEN -1
        ELSE IF \E i \in start..(at - 1) : At(rest, i) \in exclude THEN -1
        ELSE at

\* the part of the Berry header behind the name: ([^:]+):([^"]+)"
BerryHeaderTail(name, after) ==
    LET colon == Index(after, ":")
        tail  == From(after, colon + 1)
        quote == Index(tail, "\"")
    IN  IF colon < 1 \/ quote < 1 THEN ReNoMatch
        ELSE [ok |-> TRUE, g1 |-> name, g2 |-> Slice(after, 0, colon),
              g3 |-> Slice(tail, 0, quote)]

\* the Berry header with the offset of the @ behind the name
BerryHeaderAt(rest, at) ==
    IF at < 0 THEN ReNoMatch
    ELSE BerryHeaderTail(Slice(rest, 0, at), From(rest, at + 1))

\* Berry packagePattern = ^"((?:@[^/]+/)?[^@]+)@([^:]+):([^"]+)"
berryPackagePattern(line) ==
    IF ~HasPrefix(line, "\"") THEN ReNoMatch
    ELSE BerryHeaderAt(From(line, 1), HeaderNameEnd(From(line, 1), {}))

\* length of the longest prefix of s made of characters in set
RECURSIVE PrefixLen(_, _)
PrefixLen(s, set) ==
    IF Len(s) > 0 /\ At(s, 0) \in set THEN 1 + PrefixLen(From(s, 1), set) ELSE 0

RegexSpace == {" ", "\t", "\n", "\r"}

\* "?([^"\s]+)"? matched at the start of s: the captured group, "" when none
QuotedToken(s) ==
    LET t == IF HasPrefix(s, "\"") THEN From(s, 1) ELSE s
        n == Min({ i \in 0..Len(t) : i = Len(t) \/ At(t, i) \in RegexSpace \cup {"\""} })
    IN  Slice(t, 0, n)

\* key\s+"?([^"\s]+)"? matched at the start of s
KeyValue(s, key) ==
    LET v == From(s, Len(key))
        w == PrefixLen(v, RegexSpace)
    IN  IF ~HasPrefix(s, key) \/ w = 0 \/ QuotedToken(From(v, w)) = "" THEN ReNoMatch
        ELSE [ok |-> TRUE, g1 |-> QuotedToken(From(v, w)), g2 |-> "", g3 |-> ""]

\* Berry versionPattern = ^\s+version:\s+"?([^"\s]+)"?
berryVersionPattern(line) ==
    IF PrefixLen(line, RegexSpace) = 0 THEN ReNoMatch
    ELSE KeyValue(From(line, PrefixLen(line, RegexSpace)), "version:")

\* "([^"]+)" matched at the start of s
QuotedString(s) ==
    LET quote == Index(From(s, 1), "\"")
    IN  IF ~HasPrefix(s, "\"") \/ quote < 1 THEN ReNoMatch
        ELSE [ok |-> TRUE, g1 |-> Slice(s, 1, quote + 1), g2 |-> "", g3 |-> ""]

\* resolution:\s+"([^"]+)" matched at the start of s
ResolutionValue(s) ==
    LET v == From(s, Len("resolution:"))
        w == PrefixLen(v, RegexSpace)
    IN  IF ~HasPrefix(s, "resolution:") \/ w = 0 THEN ReNoMatch
        ELSE QuotedString(From(v, w))

\* Berry resolutionPattern = ^\s+resolution:\s+"([^"]+)"
berryResolutionPattern(line) ==
    IF PrefixLen(line, RegexSpace) = 0 THEN ReNoMatch
    ELSE ResolutionValue(From(line, PrefixLen(line, RegexSpace)))

\* the Classic header with the offset of the @ behind the name: @[^"]*":
ClassicHeaderAt(rest, at) ==
    LET after == From(rest, at + 1)
        quote == Index(after, "\"")
    IN  IF at < 0 \/ quote < 0 \/ quote + 1 >= Len(after) THEN ReNoMatch
        ELSE IF At(after, quote + 1) # ":" THEN ReNoMatch
        ELSE [ok |-> TRUE, g1 |-> Slice(rest, 0, at), g2 |-> "", g3 |-> ""]

\* Classic packagePattern = ^"((?:@[^/]+/)?[^@"]+)@[^"]*":
classicPackagePattern(line) ==
    IF ~HasPrefix(line, "\"") THEN ReNoMatch
    ELSE ClassicHeaderAt(From(line, 1), HeaderNameEnd(From(line, 1), {"\""}))

\* Classic versionPattern = ^version:\s+"?([^"\s]+)"?
classicVersionPattern(line) == KeyValue(line, "version:")

\* parseYarnVersion with the file spec type handled by the tarball rule
parseYarnVersionFileByResolution(v, specType, resolution) ==
    LET version == TrimSpace(v)
    IN  IF specType = "workspace" THEN "workspace"
        ELSE IF specType = "patch" THEN "patch"
        ELSE IF specType = "npm"
        THEN IF version = "" \/ version = "*" THEN "latest" ELSE version
        ELSE IF specType = "git"
        THEN IF resolution # "" THEN "git:" \o resolution ELSE "git"
        ELSE IF specType \in {"file", "tarball"}
        THEN IF HasPrefix(resolution, "file:") THEN "local" ELSE "tarball"
        ELSE IF version = "" \/ version = "*" THEN "latest"
        ELSE version

\* parseYarnVersion
parseYarnVersion(v, specType, resolution) ==
    LET version == TrimSpace(v)
    IN  IF specType = "workspace" THEN "workspace"
        ELSE IF specType = "patch" THEN "patch"
        ELSE IF specType = "npm"
        THEN IF version = "" \/ version = "*" THEN "latest" ELSE version
        ELSE IF specType = "git"
        THEN IF resolution # "" THEN "git:" \o resolution ELSE "git"
        ELSE IF specType = "file" THEN "local"
        ELSE IF specType = "tarball"
        THEN IF HasPrefix(resolution, "file:") THEN "local" ELSE "tarball"
        ELSE IF version = "" \/ version = "*" THEN "latest"
        ELSE version

-----------------------------------------------------------------------------
(* DependencyFilter, reconstructed from its description and its callers    *)

\* scope by priority peer > optional > dev > prod, prod when undeclared
FilterScope(name, d) ==
    IF name \in d.peerDeps THEN "peer"
    ELSE IF name \in d.optionalDeps THEN "optional"
    ELSE IF name \in d.devDeps THEN "dev"
    ELSE "prod"

\* membership in the direct-name set
FilterDirect(name, d) ==
    name \in (d.prodDeps \cup d.devDeps \cup d.peerDeps \cup d.optionalDeps)

\* DependencyFilter.CreateAndAppendDependency: inclusion policy, then
\* deduplication by (Type, Name), then the record
CreateAndAppendDependency(type, name, version, sourceFile, deps, d, opts) ==
    IF ~opts.IncludeTransitive /\ ~FilterDirect(name, d) THEN deps
    ELSE IF \E i \in 1..Len(deps) : deps[i].Type = type /\ deps[i].Name = name
    THEN deps
    ELSE Append(deps, [Type |-> type, Name |-> name, Version |-> version,
                       SourceFile |-> sourceFile, Scope |-> FilterScope(name, d),
                       Direct |-> FilterDirect(name, d)])

-----------------------------------------------------------------------------
(* ParseYarnLockWithOptions: yarn_lock.go (lines 17-170)                   *)

\* ParseYarnLockWithOptions without the check for a missing manifest, which
\* then counts as one that declares nothing
ParseYarnLockWithOptionsNoNilCheck ==
    /\ call = "ParseYarnLockWithOptions"
    /\ pc = "call"
    /\ pc' = DetectYarnVersion(content)
    /\ decl' = [prodDeps |-> packageJSON.Dependencies,
                devDeps |-> packageJSON.DevDependencies,
                peerDeps |-> {}, optionalDeps |-> {}]
    /\ lines' = Split(content, "\n")
    /\ lineNo' = 1
    /\ UNCHANGED <<call, returned, registryVars, content, packageJSON, options, pending, dependencies,
                   inGemSection, directDeps, verVars>>
    /\ UNCHANGED <<currentPackage, currentSpecType, currentResolution,
                   currentGroups, groupDepth>>

\* lines 18-29, 36-74, 119-145: no manifest, nothing to do; else detect the
\* format, hand the declared names to the filter and split the content. The
\* lockfile text does not decode as a package.json, so Berry gets no peer
\* and no optional names from it.
ParseYarnLockWithOptions ==
    /\ call = "ParseYarnLockWithOptions"
    /\ pc = "call"
    /\ IF packageJSON.nil
       THEN /\ pc' = "done"
            /\ UNCHANGED <<decl, lines, lineNo>>
       ELSE /\ pc' = DetectYarnVersion(content)
            /\ decl' = [prodDeps |-> packageJSON.Dependencies,
                        devDeps |-> packageJSON.DevDependencies,
                        peerDeps |-> {}, optionalDeps |-> {}]
            /\ lines' = Split(content, "\n")
            /\ lineNo' = 1
    /\ UNCHANGED <<call, returned, registryVars, content, packageJSON, options, pending, dependencies,
                   inGemSection, directDeps, verVars>>
    /\ UNCHANGED <<currentPackage, currentSpecType, currentResolution,
                   currentGroups, groupDepth>>

\* lines 77-107: the body of the Berry loop for the trimmed line, with the
\* matches of the header (p), version (v) and resolution (r) patterns
BerryStep(line, p, v, r) ==
    IF p.ok
    THEN /\ currentPackage' = p.g1
         /\ currentSpecType' = p.g2
         /\ currentResolution' = ""
         /\ UNCHANGED dependencies
    ELSE IF currentPackage # "" /\ v.ok
    THEN /\ dependencies' = CreateAndAppendDependency("npm", currentPackage,
                                parseYarnVersion(v.g1, currentSpecType, currentResolution),
                                "yarn.lock", dependencies, decl, options)
         /\ currentPackage' = ""
         /\ UNCHANGED <<currentSpecType, currentResolution>>
    ELSE IF currentPackage # "" /\ r.ok
    THEN /\ currentResolution' = r.g1
         /\ UNCHANGED <<currentPackage, currentSpecType, dependencies>>
    ELSE UNCHANGED <<currentPackage, currentSpecType, currentResolution, dependencies>>

\* line 78: the line the Berry patterns are applied to
BerryTrimmedLine(line) == TrimSpace(line)

\* lines 77-107: one iteration of the Berry loop
BerryLine ==
    /\ pc = "berry"
    /\ lineNo <= Len(lines)
    /\ BerryStep(BerryTrimmedLine(lines[lineNo]),
                 berryPackagePattern(BerryTrimmedLine(lines[lineNo])),
                 berryVersionPattern(BerryTrimmedLine(lines[lineNo])),
                 berryResolutionPattern(BerryTrimmedLine(lines[lineNo])))
    /\ lineNo' = lineNo + 1
    /\ UNCHANGED <<call, returned, registryVars, pc, content, packageJSON, options, decl, pending, lines,
                   inGemSection, directDeps, verVars, currentGroups, groupDepth>>

\* lines 147-167: the body of the Classic loop for the trimmed line
ClassicStep(line, p, v) ==
    IF p.ok
    THEN /\ currentPackage' = p.g1
         /\ UNCHANGED dependencies
    ELSE IF currentPackage # "" /\ v.ok
    THEN /\ dependencies' = CreateAndAppendDependency("npm", currentPackage, v.g1,
                                "yarn.lock", dependencies, decl, options)
         /\ currentPackage' = ""
    ELSE UNCHANGED <<currentPackage, dependencies>>

\* lines 147-167: one iteration of the Classic loop
ClassicLine ==
    /\ pc = "classic"
    /\ lineNo <= Len(lines)
    /\ ClassicStep(TrimSpace(lines[lineNo]),
                   classicPackagePattern(TrimSpace(lines[lineNo])),
                   classicVersionPattern(TrimSpace(lines[lineNo])))
    /\ lineNo' = lineNo + 1
    /\ UNCHANGED <<call, returned, registryVars, pc, content, packageJSON, options, decl, pending, lines,
                   inGemSection, directDeps, verVars, currentSpecType,
                   currentResolution, currentGroups, groupDepth>>

\* lines 109, 169: the loop is over
ReturnYarnLock ==
    /\ pc \in {"berry", "classic"}
    /\ lineNo > Len(lines)
    /\ pc' = "done"
    /\ UNCHANGED <<lockVars, gemVars, verVars, scanVars, registryVars>>

-----------------------------------------------------------------------------
(* Inputs of the yarn.lock model                                           *)

\* number of entries of a generated yarn.lock
MaxYarnEntries == 2

\* what may stand before the entries: nothing, the Berry metadata block, a
\* comment naming a marker, a quoted value that starts with @npm:
YarnHeads ==
    { << >>,
      <<"__metadata:", "  version: 6">>,
      <<"# specifiers">>,
      <<"  \"@npm:x\"">>,
      <<"__metadata:", "  \"@npm:x\"">> }

YarnEntries ==
    { <<"\"ms@npm:^2\":", "  version: 2.1.0">>,
      <<"\"@s/b@npm:1\":", "  version: \"1.0.0\"">>,
      <<"\"qs@workspace:.\":", "  resolution: \"qs@workspace:.\"", "  version: 0.0.0">>,
      <<"\"ms@patch:ms#f\":", "  version: 2.1.0">>,
      <<"\"qs@git:u\":", "  resolution: \"qs@u#c\"", "  version: 1.0.0">>,
      <<"\"ms@^2\":", "  version: 2.1.0">>,
      <<"\"ms@npm:^2\":", "  checksum: abc">> }

RECURSIVE Flatten(_)
Flatten(seqs) == IF Len(seqs) = 0 THEN << >> ELSE Head(seqs) \o Flatten(Tail(seqs))

YarnLocks ==
    { Join(h \o Flatten(es), "\n") :
        h \in YarnHeads,
        es \in UNION { [1..n -> YarnEntries] : n \in 0..MaxYarnEntries } }

YarnManifests ==
    { [nil |-> TRUE,  Dependencies |-> {}, DevDependencies |-> {}],
      [nil |-> FALSE, Dependencies |-> {"ms"}, DevDependencies |-> {}],
      [nil |-> FALSE, Dependencies |-> {"ms", "qs"}, DevDependencies |-> {"@s/b"}] }

InitYarnLock ==
    /\ call = "ParseYarnLockWithOptions"
    /\ pc = "call"
    /\ content \in YarnLocks
    /\ packageJSON \in YarnManifests
    /\ options \in [IncludeTransitive : BOOLEAN]
    /\ decl = EmptyDecl
    /\ pending = << >>
    /\ dependencies = << >>
    /\ returned = NoReturn
    /\ IdleRegistry
    /\ currentPackage = ""
    /\ currentSpecType = ""
    /\ currentResolution = ""
    /\ currentGroups = << >>
    /\ groupDepth = 0
    /\ IdleGem
    /\ IdleVer

NextYarnLock ==
    \/ ParseYarnLockWithOptions
    \/ BerryLine
    \/ ClassicLine
    \/ ReturnYarnLock

SpecYarnLock == InitYarnLock /\ [][NextYarnLock]_vars

\* the markers of the Berry format
HasBerryMarker(c) ==
    \/ Contains(c, "__metadata:")
    \/ Contains(c, "specifiers")
    \/ Contains(c, "@workspace:")
    \/ Contains(c, "@patch:")

\* C18 (as stated): DetectYarnVersion returns berry if and only if the
\* content contains one of the markers __metadata:, specifiers, @workspace:
\* or @patch:, and classic for every other content.
C18_BerryIffMarker ==
    pc \in {"berry", "classic"} => (pc = "berry" <=> HasBerryMarker(content))

\* C18 (amended): DetectYarnVersion returns berry if and only if the content
\* contains __metadata:, or contains one of specifiers, @workspace:, @patch:
\* and no quote directly followed by @npm: ; otherwise classic.
C18_BerryIffMarkerAndNoQuotedNpm ==
    pc \in {"berry", "classic"} =>
        (pc = "berry" <=>
            \/ Contains(content, "__metadata:")
            \/ (HasBerryMarker(content) /\ ~Contains(content, "\"@npm:")))

\* a file recognised as Berry by its patch entry alone
C18_Witness ==
    /\ pc = "berry"
    /\ Contains(content, "@patch:")
    /\ ~Contains(content, "__metadata:")
    /\ ~Contains(content, "specifiers")
    /\ ~Contains(content, "@workspace:")

\* the calls that went through the Berry loop to their end
BerryDone ==
    /\ call = "ParseYarnLockWithOptions"
    /\ pc = "done"
    /\ ~packageJSON.nil
    /\ DetectYarnVersion(content) = "berry"

\* offsets k of the header lines of the complete entries: a quoted header,
\* then an indented version line, with or without an indented resolution
\* line in between
BerryEntryOffsets ==
    { k \in 1..(Len(lines) - 1) :
        /\ berryPackagePattern(lines[k]).ok
        /\ \/ berryVersionPattern(lines[k + 1]).ok
           \/ /\ k + 2 <= Len(lines)
              /\ berryResolutionPattern(lines[k + 1]).ok
              /\ berryVersionPattern(lines[k + 2]).ok }

\* the resolution line of the entry at k, "" when it has none
BerryEntryResolution(k) ==
    IF berryVersionPattern(lines[k + 1]).ok THEN ""
    ELSE berryResolutionPattern(lines[k + 1]).g1

\* the version line of the entry at k
BerryEntryVersion(k) ==
    IF berryVersionPattern(lines[k + 1]).ok
    THEN berryVersionPattern(lines[k + 1]).g1
    ELSE berryVersionPattern(lines[k + 2]).g1

\* C19: in a Berry yarn.lock every entry made of a quoted name@specType:spec
\* header and an indented version line, whose name package.json declares,
\* yields exactly one Dependency for that name; the version line closes the
\* entry, and a resolution line between the two is the resolution used to
\* normalise the version (for the first entry of a name, which is the one
\* kept).
C19_BerryEntryYieldsOneDependency ==
    BerryDone =>
        \A k \in BerryEntryOffsets :
            LET name == berryPackagePattern(lines[k]).g1
            IN  FilterDirect(name, decl) =>
                  /\ Cardinality({ i \in 1..Len(dependencies) :
                                     dependencies[i].Name = name }) = 1
                  /\ (\A j \in BerryEntryOffsets :
                        berryPackagePattern(lines[j]).g1 = name => j >= k)
                     => \E i \in 1..Len(dependencies) :
                          /\ dependencies[i].Name = name
                          /\ dependencies[i].Version =
                               parseYarnVersion(BerryEntryVersion(k),
                                   berryPackagePattern(lines[k]).g2,
                                   BerryEntryResolution(k))

-----------------------------------------------------------------------------
(* Gemfile: src/internal/scanner/parsers/gemfile.go                        *)

\* \w
WordChars ==
    { At(Upper, i) : i \in 0..25 } \cup { At(Lower, i) : i \in 0..25 }
    \cup { Digits[d] : d \in 1..10 } \cup {"_"}

QuoteChars == {"'", "\""}

\* offsets at which sub occurs in s
Occurrences(s, sub) ==
    { i \in 0..(Len(s) - Len(sub)) : Slice(s, i, i + Len(sub)) = sub }

\* :?(\w+) matched at the start of s: [n = characters consumed, w = the word],
\* n = 0 when there is no word
ColonWord(s) ==
    LET c == IF HasPrefix(s, ":") THEN 1 ELSE 0
        n == PrefixLen(From(s, c), WordChars)
    IN  IF n = 0 THEN [n |-> 0, w |-> ""]
        ELSE [n |-> c + n, w |-> Slice(s, c, c + n)]

\* (?:\s*,\s*:?(\w+))*\s+do matched at the start of s, after the first group
\* g1; the second capture keeps the word of the last repetition
RECURSIVE GroupTail(_, _, _)
GroupTail(s, g1, last) ==
    LET ws    == PrefixLen(s, RegexSpace)
        comma == From(s, ws)
        word  == From(comma, 1 + PrefixLen(From(comma, 1), RegexSpace))
    IN  IF HasPrefix(comma, ",")
        THEN IF ColonWord(word).n = 0 THEN ReNoMatch
             ELSE GroupTail(From(word, ColonWord(word).n), g1, ColonWord(word).w)
        ELSE IF ws >= 1 /\ HasPrefix(comma, "do")
        THEN [ok |-> TRUE, g1 |-> g1, g2 |-> last, g3 |-> ""]
        ELSE ReNoMatch

\* group\s+:?(\w+)(?:\s*,\s*:?(\w+))*\s+do matched at the start of s
GroupMatchAt(s) ==
    LET ws   == PrefixLen(From(s, 5), RegexSpace)
        word == From(s, 5 + ws)
    IN  IF ~HasPrefix(s, "group") \/ ws = 0 \/ ColonWord(word).n = 0 THEN ReNoMatch
        ELSE GroupTail(From(word, ColonWord(word).n), ColonWord(word).w, "")

\* rubyGroupRegex.FindStringSubmatch: the leftmost match
rubyGroupRegex(line) ==
    LET hits == { i \in Occurrences(line, "group") : GroupMatchAt(From(line, i)).ok }
    IN  IF hits = {} THEN ReNoMatch ELSE GroupMatchAt(From(line, Min(hits)))

\* ['"]([^'"]+)['"] matched at the start of s: [n = characters consumed,
\* w = the quoted text], n = 0 when it does not match
Quoted(s) ==
    LET body == From(s, 1)
        n    == PrefixLen(body, { At(body, i) : i \in 0..(Len(body) - 1) } \ QuoteChars)
    IN  IF Len(s) < 3 \/ At(s, 0) \notin QuoteChars \/ n = 0 \/ n >= Len(body)
        THEN [n |-> 0, w |-> ""]
        ELSE [n |-> n + 2, w |-> Slice(body, 0, n)]

\* gem ['"]([^'"]+)['"] matched at the start of s
GemNameAt(s) ==
    IF ~HasPrefix(s, "gem ") \/ Quoted(From(s, 4)).n = 0 THEN ReNoMatch
    ELSE [ok |-> TRUE, g1 |-> Quoted(From(s, 4)).w, g2 |-> "", g3 |-> ""]

\* ,\s*['"]([^'"]+)['"] matched at the start of s, behind the name
GemVersionTail(s, name) ==
    LET v == From(s, 1 + PrefixLen(From(s, 1), RegexSpace))
    IN  IF ~HasPrefix(s, ",") \/ Quoted(v).n = 0 THEN ReNoMatch
        ELSE [ok |-> TRUE, g1 |-> name, g2 |-> Quoted(v).w, g3 |-> ""]

\* gem ['"]([^'"]+)['"],\s*['"]([^'"]+)['"] matched at the start of s
GemVersionAt(s) ==
    IF ~GemNameAt(s).ok THEN ReNoMatch
    ELSE GemVersionTail(From(s, 4 + Quoted(From(s, 4)).n), GemNameAt(s).g1)

\* rubyDepRegexWithVersion.FindStringSubmatch
rubyDepRegexWithVersion(line) ==
    LET hits == { i \in Occurrences(line, "gem ") : GemVersionAt(From(line, i)).ok }
    IN  IF hits = {} THEN ReNoMatch ELSE GemVersionAt(From(line, Min(hits)))

\* rubyDepRegexNoVersion.FindStringSubmatch
rubyDepRegexNoVersion(line) ==
    LET hits == { i \in Occurrences(line, "gem ") : GemNameAt(From(line, i)).ok }
    IN  IF hits = {} THEN ReNoMatch ELSE GemNameAt(From(line, Min(hits)))

\* key\s*['"]([^'"]+)['"] matched at the start of s, "" when it does not match
KeyQuotedAt(s, key) ==
    LET v == From(s, Len(key) + PrefixLen(From(s, Len(key)), RegexSpace))
    IN  IF HasPrefix(s, key) THEN Quoted(v).w ELSE ""

\* rubyGitRegex, rubyBranchRegex, rubyPathRegex: the first capture of the
\* leftmost match of key\s*['"]([^'"]+)['"], "" when there is none
rubyKeyRegex(line, key) ==
    LET hits == { i \in Occurrences(line, key) : KeyQuotedAt(From(line, i), key) # "" }
    IN  IF hits = {} THEN "" ELSE KeyQuotedAt(From(line, Min(hits)), key)

\* platforms?:\s*\[([^\]]+)\] matched at the start of s, "" when it does not
PlatformsAt(s) ==
    LET p     == IF HasPrefix(s, "platforms") THEN 9 ELSE 8
        v     == From(s, p + 1 + PrefixLen(From(s, p + 1), RegexSpace))
        close == Index(v, "]")
    IN  IF ~HasPrefix(s, "platform") \/ Len(s) <= p \/ At(s, p) # ":"
           \/ ~HasPrefix(v, "[") \/ close < 2
        THEN ""
        ELSE Slice(v, 1, close)

\* rubyPlatformsRegex.FindStringSubmatch: the first capture, "" when no match
rubyPlatformsRegex(line) ==
    LET hits == { i \in Occurrences(line, "platform") : PlatformsAt(From(line, i)) # "" }
    IN  IF hits = {} THEN "" ELSE PlatformsAt(From(line, Min(hits)))

\* strings.Trim(s, cutset)
RECURSIVE Trim(_, _)
Trim(s, cutset) ==
    IF Len(s) > 0 /\ At(s, 0) \in cutset THEN Trim(From(s, 1), cutset)
    ELSE IF Len(s) > 0 /\ At(s, Len(s) - 1) \in cutset
    THEN Trim(Slice(s, 0, Len(s) - 1), cutset)
    ELSE s

\* lines 185-195: the cleaned platform names that are not empty
RECURSIVE cleanPlatforms(_)
cleanPlatforms(platforms) ==
    IF Len(platforms) = 0 THEN << >>
    ELSE IF Trim(Trim(TrimSpace(Head(platforms)), {":"}), QuoteChars) = ""
    THEN cleanPlatforms(Tail(platforms))
    ELSE <<Trim(Trim(TrimSpace(Head(platforms)), {":"}), QuoteChars)>>
         \o cleanPlatforms(Tail(platforms))

\* addPlatformsToMetadata: the platforms value, << >> when the key is not set
addPlatformsToMetadata(line) ==
    IF rubyPlatformsRegex(line) = "" THEN << >>
    ELSE cleanPlatforms(Split(rubyPlatformsRegex(line), ","))

\* buildRubyMetadata: a key that is not set holds "" (<< >> for a list, FALSE
\* for requireFalse)
buildRubyMetadata(line, groups) ==
    [source       |-> "Gemfile",
     groups       |-> groups,
     git          |-> rubyKeyRegex(line, "git:"),
     branch       |-> rubyKeyRegex(line, "branch:"),
     path         |-> rubyKeyRegex(line, "path:"),
     requireFalse |-> Contains(line, "require: false") \/ Contains(line, "require:false"),
     platforms    |-> addPlatformsToMetadata(line)]

\* mapGemfileGroupToScope
mapGemfileGroupToScope(groups) ==
    IF \E i \in 1..Len(groups) : groups[i] \in {"test", "development"}
    THEN "dev" ELSE "prod"

\* lines 43-49: the non-empty captures of a group header
GroupNames(m) ==
    (IF m.g1 # "" THEN <<m.g1>> ELSE << >>) \o (IF m.g2 # "" THEN <<m.g2>> ELSE << >>)

\* lines 89-101: the record of a gem line
GemfileDependency(line, m, groups) ==
    [Type |-> "ruby", Name |-> m.g1,
     Version |-> IF m.g2 # "" THEN m.g2 ELSE "latest",
     SourceFile |-> "", Scope |-> mapGemfileGroupToScope(groups), Direct |-> TRUE,
     Metadata |-> buildRubyMetadata(line, groups)]

\* lines 34-38: split the content, no group open
ParseGemfile ==
    /\ call = "ParseGemfile"
    /\ pc = "call"
    /\ lines' = Split(content, "\n")
    /\ lineNo' = 1
    /\ currentGroups' = << >>
    /\ groupDepth' = 0
    /\ pc' = "gemfile"
    /\ UNCHANGED <<call, returned, registryVars, lockVars, inGemSection, directDeps, verVars,
                   currentPackage, currentSpecType, currentResolution>>

\* lines 39-101: the body of the loop for the trimmed line, with the matches
\* of the group pattern (g) and of the gem patterns (v with a version, n
\* without)
GemfileStep(trimmedLine, g, v, n) ==
    IF g.ok
    THEN /\ currentGroups' = GroupNames(g)
         /\ groupDepth' = groupDepth + 1
         /\ UNCHANGED dependencies
    ELSE IF trimmedLine = "end" /\ groupDepth > 0
    THEN /\ groupDepth' = groupDepth - 1
         /\ currentGroups' = IF groupDepth - 1 = 0 THEN << >> ELSE currentGroups
         /\ UNCHANGED dependencies
    ELSE IF trimmedLine = "" \/ HasPrefix(trimmedLine, "#") \/ (~v.ok /\ ~n.ok)
    THEN UNCHANGED <<currentGroups, groupDepth, dependencies>>
    ELSE /\ dependencies' = Append(dependencies,
                                GemfileDependency(trimmedLine, IF v.ok THEN v ELSE n,
                                                  currentGroups))
         /\ UNCHANGED <<currentGroups, groupDepth>>

\* lines 38-102: one iteration of the loop
GemfileLine ==
    /\ pc = "gemfile"
    /\ lineNo <= Len(lines)
    /\ GemfileStep(TrimSpace(lines[lineNo]),
                   rubyGroupRegex(TrimSpace(lines[lineNo])),
                   rubyDepRegexWithVersion(TrimSpace(lines[lineNo])),
                   rubyDepRegexNoVersion(TrimSpace(lines[lineNo])))
    /\ lineNo' = lineNo + 1
    /\ UNCHANGED <<call, returned, registryVars, pc, content, packageJSON, options, decl, pending, lines,
                   inGemSection, directDeps, verVars,
                   currentPackage, currentSpecType, currentResolution>>

\* line 104: the loop is over
ReturnGemfile ==
    /\ pc = "gemfile"
    /\ lineNo > Len(lines)
    /\ pc' = "done"
    /\ UNCHANGED <<lockVars, gemVars, verVars, scanVars, registryVars>>

-----------------------------------------------------------------------------
(* Inputs of the Gemfile model                                             *)

\* number of lines of a generated Gemfile
MaxGemfileLines == 4

GemfileLines ==
    { "  gem 'pg', '1.5', git: 'u', require: false, platforms: [:ruby, :mri]",
      "group :test do",
      "group :development do",
      "group :staging do",
      "end" }

Gemfiles ==
    { Join(ls, "\n") : ls \in UNION { [1..n -> GemfileLines] : n \in 1..MaxGemfileLines } }

InitGemfile ==
    /\ call = "ParseGemfile"
    /\ pc = "call"
    /\ content \in Gemfiles
    /\ options = [IncludeTransitive |-> FALSE]
    /\ dependencies = << >>
    /\ returned = NoReturn
    /\ IdleRegistry
    /\ currentPackage = ""
    /\ currentSpecType = ""
    /\ currentResolution = ""
    /\ currentGroups = << >>
    /\ groupDepth = 0
    /\ IdleLock
    /\ IdleGem
    /\ IdleVer

NextGemfile ==
    \/ ParseGemfile
    \/ GemfileLine
    \/ ReturnGemfile

SpecGemfile == InitGemfile /\ [][NextGemfile]_vars

\* the group blocks open before line k, innermost last, each with the names
\* of its header: a header opens a block, an end closes the innermost one
RECURSIVE OpenBlocks(_)
OpenBlocks(k) ==
    IF k <= 1 THEN << >>
    ELSE LET before == OpenBlocks(k - 1)
             t      == TrimSpace(lines[k - 1])
         IN  IF rubyGroupRegex(t).ok THEN Append(before, GroupNames(rubyGroupRegex(t)))
             ELSE IF t = "end" /\ Len(before) > 0
             THEN SubSeq(before, 1, Len(before) - 1)
             ELSE before

\* the lines that yield a gem
IsGemLine(k) ==
    LET t == TrimSpace(lines[k])
    IN  /\ ~rubyGroupRegex(t).ok
        /\ t # "end"
        /\ t # ""
        /\ ~HasPrefix(t, "#")
        /\ rubyDepRegexNoVersion(t).ok

\* the line of the i-th gem
GemLineNo(i) ==
    CHOOSE k \in 1..Len(lines) :
        /\ IsGemLine(k)
        /\ Cardinality({ j \in 1..k : IsGemLine(j) }) = i

\* C20: a gem gets scope dev if and only if at least one group block still
\* open at its line names test or development; after the end of an inner
\* block the enclosing open block decides, after the outermost end no group
\* does (prod).
C20_ScopeByOpenGroups ==
    (call = "ParseGemfile" /\ pc = "done") =>
        \A i \in 1..Len(dependencies) :
            dependencies[i].Scope = "dev" <=>
                \E b \in 1..Len(OpenBlocks(GemLineNo(i))) :
                    mapGemfileGroupToScope(OpenBlocks(GemLineNo(i))[b]) = "dev"

-----------------------------------------------------------------------------
(* pnpm-lock.yaml: src/internal/scanner/parsers/pnpm_lock.go               *)

\* PnpmResolution
PnpmResolution(directory, tarball, git) ==
    [Directory |-> directory, Tarball |-> tarball, Git |-> git]

\* PnpmPackage
PnpmPackage(resolution, version, dev, optional) ==
    [Resolution |-> resolution, Version |-> version, Dev |-> dev, Optional |-> optional]

\* PnpmDependency
PnpmDependency(specifier, version) == [Specifier |-> specifier, Version |-> version]

\* PnpmImporter
PnpmImporter(deps, devDeps, optionalDeps) ==
    [Dependencies |-> deps, DevDependencies |-> devDeps,
     OptionalDependencies |-> optionalDeps]

\* lines 143-149: the segment behind the first packages segment that has one
RECURSIVE WorkspaceName(_)
WorkspaceName(parts) ==
    IF Len(parts) < 2 THEN ""
    ELSE IF Head(parts) = "packages" THEN parts[2]
    ELSE WorkspaceName(Tail(parts))

\* extractPackageNameFromPnpmPath
extractPackageNameFromPnpmPath(path) ==
    LET parts == Split(path, "/")
    IN  IF HasPrefix(path, ".") THEN WorkspaceName(parts)
        ELSE IF HasPrefix(parts[1], "@") /\ Len(parts) > 1
        THEN parts[1] \o "/" \o parts[2]
        ELSE parts[1]

\* parsePnpmVersion
parsePnpmVersion(version, resolution) ==
    IF resolution.Directory # "" THEN "workspace"
    ELSE IF resolution.Git # "" THEN "git:" \o resolution.Git
    ELSE IF resolution.Tarball # ""
    THEN IF HasPrefix(resolution.Tarball, "file:") THEN "local" ELSE "tarball"
    ELSE IF TrimSpace(version) = "" \/ TrimSpace(version) = "*" THEN "latest"
    ELSE TrimSpace(version)

\* lines 72-80, 105-113: the names of the root importer handed to the filter
PnpmDecl(rootImporter) ==
    [prodDeps     |-> Keys(rootImporter.Dependencies),
     devDeps      |-> Keys(rootImporter.DevDependencies),
     peerDeps     |-> {},
     optionalDeps |-> Keys(rootImporter.OptionalDependencies)]

\* lines 58-114: decode, pick the format, hand the root importer's names to
\* the filter
ParsePnpmLockWithOptions ==
    /\ call = "ParsePnpmLockWithOptions"
    /\ pc = "call"
    /\ IF content.err
       THEN /\ pc' = "done"
            /\ UNCHANGED <<decl, pending>>
       ELSE IF Cardinality(Keys(content.Packages)) > 0
       THEN /\ decl' = IF "." \in Keys(content.Importers)
                       THEN PnpmDecl(content.Importers["."]) ELSE EmptyDecl
            /\ pending' = <<Frame(content.Packages, "")>>
            /\ pc' = "pnpmPackages"
       ELSE IF "." \notin Keys(content.Importers)
       THEN /\ pc' = "done"
            /\ UNCHANGED <<decl, pending>>
       ELSE /\ decl' = PnpmDecl(content.Importers["."])
            /\ pending' = <<Frame(content.Importers["."].Dependencies, "")>>
            /\ pc' = "pnpmDependencies"
    /\ UNCHANGED <<call, returned, registryVars, content, packageJSON, options, dependencies, gemVars, verVars,
                   currentPackage, currentSpecType, currentResolution,
                   currentGroups, groupDepth>>

\* lines 83-95: one iteration of the range over lockfile.Packages
RangePnpmPackages ==
    /\ pc = "pnpmPackages"
    /\ \E path \in Top(pending).todo :
         /\ pending' = Visit(pending, path)
         /\ dependencies' =
              IF extractPackageNameFromPnpmPath(path) = "" THEN dependencies
              ELSE CreateAndAppendDependency("npm",
                       extractPackageNameFromPnpmPath(path),
                       parsePnpmVersion(content.Packages[path].Version,
                                        content.Packages[path].Resolution),
                       "pnpm-lock.yaml", dependencies, decl, options)
    /\ UNCHANGED <<call, returned, registryVars, pc, content, packageJSON, options, decl, gemVars, verVars,
                   currentPackage, currentSpecType, currentResolution,
                   currentGroups, groupDepth>>

\* lines 116-132: one iteration of a range over a map of the root importer
RangePnpmImporter ==
    /\ pc \in {"pnpmDependencies", "pnpmDevDependencies", "pnpmOptionalDependencies"}
    /\ \E name \in Top(pending).todo :
         /\ pending' = Visit(pending, name)
         /\ dependencies' =
              CreateAndAppendDependency("npm", name,
                  parsePnpmVersion(Top(pending).deps[name].Version,
                                   PnpmResolution("", "", "")),
                  "pnpm-lock.yaml", dependencies, decl, options)
    /\ UNCHANGED <<call, returned, registryVars, pc, content, packageJSON, options, decl, gemVars, verVars,
                   currentPackage, currentSpecType, currentResolution,
                   currentGroups, groupDepth>>

\* lines 95, 120, 126, 132-135: a range is exhausted; the next one starts or
\* the call returns
ReturnPnpmLock ==
    /\ pc \in {"pnpmPackages", "pnpmDependencies", "pnpmDevDependencies",
               "pnpmOptionalDependencies"}
    /\ Top(pending).todo = {}
    /\ IF pc = "pnpmDependencies"
       THEN /\ pending' = <<Frame(content.Importers["."].DevDependencies, "")>>
            /\ pc' = "pnpmDevDependencies"
       ELSE IF pc = "pnpmDevDependencies"
       THEN /\ pending' = <<Frame(content.Importers["."].OptionalDependencies, "")>>
            /\ pc' = "pnpmOptionalDependencies"
       ELSE /\ pending' = << >>
            /\ pc' = "done"
    /\ UNCHANGED <<call, returned, registryVars, content, packageJSON, options, decl, dependencies, gemVars,
                   verVars, currentPackage, currentSpecType, currentResolution,
                   currentGroups, groupDepth>>

-----------------------------------------------------------------------------
(* Inputs of the pnpm-lock.yaml model                                      *)

\* number of entries of a generated packages map
MaxPnpmEntries == 2

PnpmPaths == {"ms/2.1.0", "@s/b/1.0.0", "./packages/qs", "/ms/2.1.0", "ms@2.1.0"}

PnpmPackages ==
    { PnpmPackage(PnpmResolution("", "", ""), "2.1.0", FALSE, FALSE),
      PnpmPackage(PnpmResolution("", "", ""), "*", TRUE, FALSE),
      PnpmPackage(PnpmResolution("packages/qs", "", ""), "", FALSE, TRUE),
      PnpmPackage(PnpmResolution("", "file:b.tgz", ""), "1.0.0", FALSE, FALSE) }

PnpmPackagesMaps ==
    UNION { [S -> PnpmPackages] :
              S \in { T \in SUBSET PnpmPaths : Cardinality(T) <= MaxPnpmEntries } }

PnpmImporters ==
    { PnpmImporter(EmptyMap, EmptyMap, EmptyMap),
      PnpmImporter([n \in {"ms"} |-> PnpmDependency("^2", "2.1.0")], EmptyMap, EmptyMap),
      PnpmImporter([n \in {"ms", "qs"} |-> PnpmDependency("*", " 1.0.0")],
                   [n \in {"@s/b", "ms"} |-> PnpmDependency("1", "*")],
                   [n \in {"qs"} |-> PnpmDependency("1", "1.0.1")]) }

PnpmImportersMaps ==
    { EmptyMap } \cup
    { [p \in {"."} |-> i] : i \in PnpmImporters } \cup
    { [p \in {"packages/a"} |-> i] : i \in PnpmImporters }

PnpmContents ==
    { [err |-> TRUE, Importers |-> EmptyMap, Packages |-> EmptyMap] } \cup
    { [err |-> FALSE, Importers |-> i, Packages |-> p] :
        i \in PnpmImportersMaps, p \in PnpmPackagesMaps }

InitPnpmLock ==
    /\ call = "ParsePnpmLockWithOptions"
    /\ pc = "call"
    /\ content \in PnpmContents
    /\ packageJSON = [nil |-> TRUE, Dependencies |-> {}, DevDependencies |-> {}]
    /\ options \in [IncludeTransitive : BOOLEAN]
    /\ decl = EmptyDecl
    /\ pending = << >>
    /\ dependencies = << >>
    /\ returned = NoReturn
    /\ IdleRegistry
    /\ currentPackage = ""
    /\ currentSpecType = ""
    /\ currentResolution = ""
    /\ currentGroups = << >>
    /\ groupDepth = 0
    /\ IdleGem
    /\ IdleVer

NextPnpmLock ==
    \/ ParsePnpmLockWithOptions
    \/ RangePnpmPackages
    \/ RangePnpmImporter
    \/ ReturnPnpmLock

SpecPnpmLock == InitPnpmLock /\ [][NextPnpmLock]_vars

-----------------------------------------------------------------------------
(* The three npm lockfile entry points                                     *)

InitLockfiles ==
    \/ InitPackageLock
    \/ InitYarnLock
    \/ InitPnpmLock

NextLockfiles ==
    \/ NextPackageLock
    \/ NextYarnLock
    \/ NextPnpmLock

SpecLockfiles == InitLockfiles /\ [][NextLockfiles]_vars

\* a content the entry point cannot use: not valid JSON, not valid YAML or
\* neither a populated packages map nor a root importer, no manifest
StructurallyBad ==
    \/ call = "ParsePackageLockWithOptions" /\ content.err
    \/ /\ call = "ParsePnpmLockWithOptions"
       /\ \/ content.err
          \/ (Keys(content.Packages) = {} /\ "." \notin Keys(content.Importers))
    \/ call = "ParseYarnLockWithOptions" /\ packageJSON.nil

\* C17: on a structurally bad input (invalid JSON for the package-lock entry
\* point, invalid YAML or neither a populated packages map nor a root importer
\* for the pnpm one, no manifest for the yarn one) the call returns at once
\* with an empty result, and there is no error outcome.
C17_BadInputEmptyResult ==
    StructurallyBad =>
        /\ pc \in {"call", "done"}
        /\ dependencies = << >>

\* the pnpm entry point has returned from a lockfile that only has a
\* workspace importer
C17_Witness ==
    /\ call = "ParsePnpmLockWithOptions"
    /\ pc = "done"
    /\ ~content.err
    /\ Keys(content.Packages) = {}
    /\ Keys(content.Importers) = {"packages/a"}
    /\ dependencies = << >>

-----------------------------------------------------------------------------
(* Gemfile group headers and comment lines                                 *)

GemfileHeaderLines ==
    { "gem 'pg'",
      "group :test do",
      "group :staging, :development do",
      "group :staging, :test, :ci do",
      "end",
      "# group :test do",
      "# gem 'pg'" }

GemfilesWithHeaders ==
    { Join(ls, "\n") :
        ls \in UNION { [1..n -> GemfileHeaderLines] : n \in 1..MaxGemfileLines } }

InitGemfileHeaders ==
    /\ call = "ParseGemfile"
    /\ pc = "call"
    /\ content \in GemfilesWithHeaders
    /\ options = [IncludeTransitive |-> FALSE]
    /\ dependencies = << >>
    /\ IdleScan
    /\ IdleLock
    /\ IdleGem
    /\ IdleVer

SpecGemfileHeaders == InitGemfileHeaders /\ [][NextGemfile]_vars

\* the names written in a group header `group :a, :b, ... do`, in order
HeaderGroups(t) ==
    LET parts == Split(Slice(t, 5, Len(t) - 3), ",")
    IN  [ i \in 1..Len(parts) |-> Trim(TrimSpace(parts[i]), {":"}) ]

\* the lines before line k that the parser takes for a group header
HeadersBefore(k) ==
    { j \in 1..(k - 1) : rubyGroupRegex(TrimSpace(lines[j])).ok }

\* line k lies in the block of the one header h: h is the only header before
\* k, it is written as a header (not inside a comment) and no end precedes k
InBlockOf(k, h) ==
    /\ HeadersBefore(k) = {h}
    /\ HasPrefix(TrimSpace(lines[h]), "group")
    /\ \A j \in 1..(k - 1) : TrimSpace(lines[j]) # "end"

\* C21: a gem in the block of a header naming n >= 1 groups has every named
\* group in Metadata["groups"], and scope dev exactly when one of the names,
\* in any position, is test or development.
C21_AllHeaderGroupsActive ==
    (call = "ParseGemfile" /\ pc = "done") =>
        \A i \in 1..Len(dependencies) : \A h \in 1..Len(lines) :
            InBlockOf(GemLineNo(i), h) =>
                /\ dependencies[i].Metadata.groups = HeaderGroups(TrimSpace(lines[h]))
                /\ dependencies[i].Scope = "dev" <=>
                     \E g \in 1..Len(HeaderGroups(TrimSpace(lines[h]))) :
                        HeaderGroups(TrimSpace(lines[h]))[g] \in {"test", "development"}

\* C29: the step of the loop on a comment line (first non-blank character #)
\* adds no dependency and leaves the active groups and the group depth as
\* they were, whatever follows the #.
C29_CommentLineNoEffect ==
    [][(/\ call = "ParseGemfile"
        /\ pc = "gemfile"
        /\ lineNo <= Len(lines)
        /\ HasPrefix(TrimSpace(lines[lineNo]), "#"))
       => UNCHANGED <<dependencies, currentGroups, groupDepth>>]_vars

-----------------------------------------------------------------------------
(* Maven dependency list: src/internal/scanner/parsers/maven_dependency_list.go *)

\* the characters of s outside the set
CharsOutside(s, set) == { At(s, i) : i \in 0..(Len(s) - 1) } \ set

\* depPattern with the line cut at its colons (parts) and the text behind
\* the fourth colon (rest): ^\s+([^:]+):([^:]+):([^:]+):([^:]+):([^\s\[]+).
\* \s+ takes the leading white space of the first field, less one character
\* when the field is white space only.
depPatternFields(parts, rest) ==
    IF \/ Len(parts) < 5
       \/ Len(parts[1]) < 2
       \/ PrefixLen(parts[1], RegexSpace) = 0
       \/ parts[2] = "" \/ parts[3] = "" \/ parts[4] = ""
       \/ PrefixLen(rest, CharsOutside(rest, RegexSpace \cup {"["})) = 0
    THEN [ok |-> FALSE, g |-> << >>]
    ELSE [ok |-> TRUE,
          g  |-> << From(parts[1], Min({PrefixLen(parts[1], RegexSpace),
                                        Len(parts[1]) - 1})),
                    parts[2], parts[3], parts[4],
                    Slice(rest, 0,
                          PrefixLen(rest, CharsOutside(rest, RegexSpace \cup {"["}))) >>]

\* depPattern.FindStringSubmatch
depPattern(line) ==
    depPatternFields(Split(line, ":"),
                     IF Len(Split(line, ":")) < 5 THEN ""
                     ELSE Join(SubSeq(Split(line, ":"), 5, Len(Split(line, ":"))), ":"))

\* mapMavenListScope
mapMavenListScope(scope) ==
    IF scope = "test" THEN "dev"
    ELSE IF scope \in {"provided", "runtime", "compile"} THEN "prod"
    ELSE IF scope = "system" THEN "system"
    ELSE IF scope = "import" THEN "import"
    ELSE "prod"

\* lines 65-95: the record of a matched line; Metadata.type is "" when the
\* key is not set
MavenListDependency(g) ==
    [Type |-> "maven",
     Name |-> TrimSpace(g[1]) \o ":" \o TrimSpace(g[2]),
     Version |-> TrimSpace(g[4]),
     SourceFile |-> "",
     Scope |-> mapMavenListScope(TrimSpace(g[5])),
     Direct |-> FALSE,
     Metadata |-> [type   |-> IF TrimSpace(g[3]) \in {"", "jar"} THEN ""
                              ELSE TrimSpace(g[3]),
                   source |-> "dependency-list"]]

\* lines 46-53: no dependencies, the content split into lines
ParseDependencyList ==
    /\ call = "ParseDependencyList"
    /\ pc = "call"
    /\ lines' = Split(content, "\n")
    /\ lineNo' = 1
    /\ dependencies' = << >>
    /\ pc' = "mavenlist"
    /\ UNCHANGED <<call, returned, registryVars, content, packageJSON, options, decl, pending,
                   inGemSection, directDeps, verVars,
                   currentPackage, currentSpecType, currentResolution,
                   currentGroups, groupDepth>>

\* lines 55-97: the body of the loop for a line and its match m
DependencyListStep(line, m) ==
    IF \/ TrimSpace(line) = ""
       \/ Contains(line, "The following files have been resolved:")
       \/ ~m.ok
    THEN UNCHANGED dependencies
    ELSE IF TrimSpace(m.g[1]) = "" \/ TrimSpace(m.g[2]) = ""
    THEN UNCHANGED dependencies
    ELSE dependencies' = Append(dependencies, MavenListDependency(m.g))

\* lines 54-98: one iteration of the loop
DependencyListLine ==
    /\ pc = "mavenlist"
    /\ lineNo <= Len(lines)
    /\ DependencyListStep(lines[lineNo], depPattern(lines[lineNo]))
    /\ lineNo' = lineNo + 1
    /\ UNCHANGED <<call, returned, registryVars, pc, content, packageJSON, options, decl, pending, lines,
                   inGemSection, directDeps, verVars, scanVars, registryVars>>

\* line 100: the loop is over
ReturnDependencyList ==
    /\ pc = "mavenlist"
    /\ lineNo > Len(lines)
    /\ pc' = "done"
    /\ UNCHANGED <<lockVars, gemVars, verVars, scanVars, registryVars>>

-----------------------------------------------------------------------------
(* Inputs of the Maven dependency list model                               *)

\* number of lines of a generated dependency list
MaxListLines == 2

\* the escape character U+001B that opens an ANSI colour code
ESC == ""

MavenListScopes ==
    {"test", "compile", "provided", "runtime", "system", "import", "custom"}

\* what mvn writes behind the scope: nothing, the module annotation, and the
\* annotation in colour
MavenListTrailers ==
    { "",
      " -- module junit [auto]",
      ESC \o "[36m -- module junit" \o ESC \o "[0;1m [auto]" \o ESC \o "[m" }

\* the indentation mvn writes before an artifact
MavenListIndent == "   "

MavenListArtifacts == {"junit:junit:jar:4.13.2", "org.example:war-artifact:war:1.0.0"}

MavenListLines ==
    { MavenListIndent \o "junit:junit:jar:4.13.2:" \o sc \o tr :
        sc \in MavenListScopes, tr \in MavenListTrailers }
    \cup { "The following files have been resolved:",
           MavenListIndent \o "org.example:war-artifact:war:1.0.0:compile" }

DependencyLists ==
    { Join(ls, "\n") : ls \in UNION { [1..n -> MavenListLines] : n \in 1..MaxListLines } }

InitMavenList ==
    /\ call = "ParseDependencyList"
    /\ pc = "call"
    /\ content \in DependencyLists
    /\ options \in { [IncludeTransitive |-> t] : t \in BOOLEAN }
    /\ dependencies = << >>
    /\ IdleScan
    /\ IdleLock
    /\ IdleGem
    /\ IdleVer

NextMavenList ==
    \/ ParseDependencyList
    \/ DependencyListLine
    \/ ReturnDependencyList

SpecMavenList == InitMavenList /\ [][NextMavenList]_vars

\* the scope the taxonomy gives a Maven scope
TaxonomyScope(sc) ==
    CASE sc = "test" -> "dev"
      [] sc = "system" -> "system"
      [] sc = "import" -> "import"
      [] OTHER -> "prod"

\* the lines of the form groupId:artifactId:type:version:scope with an
\* optional trailer, in order
ListLineNos == { k \in 1..Len(lines) : HasPrefix(lines[k], MavenListIndent) }

ListLineNo(i) ==
    CHOOSE k \in ListLineNos : Cardinality({ j \in ListLineNos : j <= k }) = i

\* what line k was written from: the artifact, the scope and the trailer
ListLineParts(k) ==
    CHOOSE w \in MavenListArtifacts \X MavenListScopes \X MavenListTrailers :
        lines[k] = MavenListIndent \o w[1] \o ":" \o w[2] \o w[3]

\* C22: every line groupId:artifactId:type:version:scope, with or without
\* colour codes and a module annotation behind it, yields one record with
\* Name groupId:artifactId, the version, Direct false and the scope of the
\* taxonomy for the scope written on the line.
C22_ListLineRecord ==
    (call = "ParseDependencyList" /\ pc = "done") =>
        /\ Len(dependencies) = Cardinality(ListLineNos)
        /\ \A i \in 1..Len(dependencies) :
            /\ dependencies[i].Name =
                 Join(SubSeq(Split(ListLineParts(ListLineNo(i))[1], ":"), 1, 2), ":")
            /\ dependencies[i].Version = Split(ListLineParts(ListLineNo(i))[1], ":")[4]
            /\ dependencies[i].Direct = FALSE
            /\ dependencies[i].Scope = TaxonomyScope(ListLineParts(ListLineNo(i))[2])

-----------------------------------------------------------------------------
(* pnpm: a package's own dev and optional flags                            *)

\* determinePnpmScope (pnpm_lock.go, lines 198-211); no entry point calls it
determinePnpmScope(pkg) ==
    IF pkg.Optional THEN "optional"
    ELSE IF pkg.Dev THEN "dev"
    ELSE "prod"

\* the paths of the packages map that yield the name
PnpmPathsOf(name) ==
    { path \in Keys(content.Packages) : extractPackageNameFromPnpmPath(path) = name }

\* C23: on a lockfile with a populated packages map and IncludeTransitive
\* set, a package named in none of the root importer's sets whose own
\* optional (dev) flag is set is emitted with scope optional (dev).
C23_OwnFlagsScope ==
    (/\ call = "ParsePnpmLockWithOptions"
     /\ pc = "done"
     /\ ~content.err
     /\ options.IncludeTransitive) =>
        \A i \in 1..Len(dependencies) : \A path \in Keys(content.Packages) :
            (/\ PnpmPathsOf(dependencies[i].Name) = {path}
             /\ ~FilterDirect(dependencies[i].Name, decl)
             /\ (content.Packages[path].Optional \/ content.Packages[path].Dev))
            => dependencies[i].Scope = determinePnpmScope(content.Packages[path])

-----------------------------------------------------------------------------
(* Two calls of one entry point with the same inputs                       *)

\* the caller keeps the result and calls the entry point again with the
\* same content, manifest and options; the locals of the new call are fresh
CallAgain ==
    /\ call \in {"ParsePackageLockWithOptions", "ParsePnpmLockWithOptions"}
    /\ pc = "done"
    /\ ~returned.set
    /\ returned' = [set |-> TRUE, deps |-> dependencies]
    /\ pc' = "call"
    /\ decl' = EmptyDecl
    /\ pending' = << >>
    /\ dependencies' = << >>
    /\ UNCHANGED <<call, registryVars, content, packageJSON, options, gemVars, verVars,
                   currentPackage, currentSpecType, currentResolution,
                   currentGroups, groupDepth>>

\* a packages map that holds one package in two versions
PnpmTwoVersions ==
    [err       |-> FALSE,
     Importers |-> EmptyMap,
     Packages  |-> [ path \in {"ms/2.0.0", "ms/2.1.0"} |->
                       PnpmPackage(PnpmResolution("", "", ""), From(path, 3),
                                   FALSE, FALSE) ]]

InitPnpmTwoVersions ==
    /\ call = "ParsePnpmLockWithOptions"
    /\ pc = "call"
    /\ content = PnpmTwoVersions
    /\ packageJSON = [nil |-> TRUE, Dependencies |-> {}, DevDependencies |-> {}]
    /\ options \in [IncludeTransitive : BOOLEAN]
    /\ decl = EmptyDecl
    /\ pending = << >>
    /\ dependencies = << >>
    /\ IdleScan
    /\ IdleGem
    /\ IdleVer

InitCallAgain ==
    \/ InitPackageLock
    \/ InitPnpmLock
    \/ InitPnpmTwoVersions

NextCallAgain ==
    \/ NextPackageLock
    \/ NextPnpmLock
    \/ CallAgain

SpecCallAgain == InitCallAgain /\ [][NextCallAgain]_vars

\* C24: the second of two calls of one entry point with the same content,
\* manifest name sets and options returns the list the first call returned:
\* same records, same versions, same order.
C24_SameInputsSameResult ==
    (pc = "done" /\ returned.set) => dependencies = returned.deps

-----------------------------------------------------------------------------
(* NormalizeNPMVersion: src/internal/scanner/semver/npm.go (lines 244-299) *)

\* lines 291-298: parse and render, the string itself when it does not parse
NormalizeNPMParsed(version, v) ==
    IF ~v.ok THEN version ELSE NPMCanon(v, TRUE)

\* lines 248-289: the protocols and the special values, on the trimmed string
NormalizeNPMTrimmed(version) ==
    IF HasPrefix(version, "workspace:") THEN "workspace"
    ELSE IF HasPrefix(version, "file:") THEN "local"
    ELSE IF HasPrefix(version, "npm:") THEN TrimPrefix(version, "npm:")
    ELSE IF HasPrefix(version, "git:") \/ HasPrefix(version, "git+") THEN version
    ELSE IF HasPrefix(version, "github:") THEN version
    ELSE IF HasPrefix(version, "http:") \/ HasPrefix(version, "https:") THEN version
    ELSE IF HasPrefix(version, "link:") THEN "link"
    ELSE IF version \in {"", "*", "latest"} THEN "latest"
    ELSE NormalizeNPMParsed(version, parseNPMVersion(version))

\* NormalizeNPMVersion
NormalizeNPMVersion(version) == NormalizeNPMTrimmed(TrimSpace(version))

NormalizeNPMVersions ==
    /\ call = "NormalizeNPMVersion"
    /\ pc = "call"
    /\ canon' = [i \in DOMAIN raw |-> NormalizeNPMVersion(raw[i])]
    /\ pc' = "done"
    /\ UNCHANGED <<lockVars, gemVars, scanVars, registryVars>>
    /\ UNCHANGED <<raw, system, parsed, reparsed, cmp>>

\* the strings of TestNormalizeNPMVersion
NPMManifestVersions ==
    {"1.2.3", "v1.2.3", "1.2", "1",
     "workspace:*", "workspace:^1.0.0", "file:../local",
     "git:repo#main", "git+https://github.com/user/repo.git", "github:user/repo",
     "http://example.com/package.tgz", "https://example.com/package.tgz",
     "link:../local",
     "npm:package@1.2.3", "npm:@scope/package@1.2.3",
     "*", "latest", "", "invalid"}

InitNormalizeNPM ==
    /\ call = "NormalizeNPMVersion"
    /\ pc = "call"
    /\ system = "npm"
    /\ \E x, y \in NPMManifestVersions : raw = <<x, y>>
    /\ parsed = << >>
    /\ canon = << >>
    /\ reparsed = << >>
    /\ cmp = << >>
    /\ IdleCall
    /\ IdleScan
    /\ IdleLock
    /\ IdleGem

SpecNormalizeNPM == InitNormalizeNPM /\ [][NormalizeNPMVersions]_vars

\* the canonical form of a string under the npm system, the string itself
\* when it does not parse
NPMCanonOrSelf(version) ==
    IF parseNPMVersion(version).ok THEN NPMCanon(parseNPMVersion(version), TRUE)
    ELSE version

\* the result the protocol table gives a manifest version
ProtocolNormal(version) ==
    IF HasPrefix(version, "workspace:") THEN "workspace"
    ELSE IF HasPrefix(version, "file:") THEN "local"
    ELSE IF HasPrefix(version, "git:") \/ HasPrefix(version, "git+") THEN "git"
    ELSE IF HasPrefix(version, "github:") THEN "github"
    ELSE IF HasPrefix(version, "http:") \/ HasPrefix(version, "https:") THEN "tarball"
    ELSE IF HasPrefix(version, "link:") THEN "link"
    ELSE IF HasPrefix(version, "npm:")
    THEN NPMCanonOrSelf(From(version, LastIndex(version, "@") + 1))
    ELSE IF version \in {"", "*", "latest"} THEN "latest"
    ELSE NPMCanonOrSelf(version)

\* C25: NormalizeNPMVersion maps workspace: to workspace, file: to local,
\* git: and git+ to git, github: to github, http: and https: to tarball,
\* link: to link, npm:<package>@<version> to the canonical form of the
\* version, the empty string, * and latest to latest, and any other string to
\* its npm canonical form or to itself when it does not parse.
C25_ProtocolTable ==
    (call = "NormalizeNPMVersion" /\ pc = "done") =>
        \A i \in DOMAIN raw : canon[i] = ProtocolNormal(raw[i])

-----------------------------------------------------------------------------
(* npm versions behind leading prefix characters                           *)

NPMPrefixes == {"", "v", "V", "=", "v=", "vV", "V=", "vV=", "=v", "vv", "=="}

NPMCores == {"1", "1.2", "1.2.3", "1.2.3.4", "1.x", "1.2.3-rc.1+b"}

InitNPMPrefix ==
    /\ call = "Canon"
    /\ pc = "Parse"
    /\ system = "npm"
    /\ raw \in { <<p \o c>> : p \in NPMPrefixes, c \in NPMCores }
    /\ parsed = << >>
    /\ canon = << >>
    /\ reparsed = << >>
    /\ cmp = << >>
    /\ IdleCall
    /\ IdleScan
    /\ IdleLock
    /\ IdleGem

SpecNPMPrefix == InitNPMPrefix /\ [][NextVersions]_vars

\* s without one leading v, V or =
StripOnePrefix(s) ==
    IF Len(s) > 0 /\ At(s, 0) \in {"v", "V", "="} THEN From(s, 1) ELSE s

\* s without its build metadata and its prerelease
CoreOf(s) ==
    Split(Split(s, "+")[1], "-")[1]

\* major[.minor[.patch]]: one to three dot-separated runs of digits
IsMajorMinorPatch(s) ==
    /\ Len(Split(s, ".")) \in 1..3
    /\ \A k \in 1..Len(Split(s, ".")) : isAllDigits(Split(s, ".")[k])

\* C26: NPM.Parse accepts a string exactly when the string without one
\* leading v, V or = has a core major[.minor[.patch]] of one to three numeric
\* segments, and the canonical form is that of the remainder; a string that
\* starts with two prefix characters is rejected.
C26_OnePrefixStripped ==
    (Done /\ system = "npm" /\ call = "Canon") =>
        \A i \in DOMAIN raw :
            /\ parsed[i].ok <=> IsMajorMinorPatch(CoreOf(StripOnePrefix(raw[i])))
            /\ parsed[i].ok => canon[i] = NPMCanon(parseNPMVersion(StripOnePrefix(raw[i])), TRUE)

-----------------------------------------------------------------------------
(* parseYarnVersion on its own: yarn_lock.go (lines 174-226)               *)

\* one call parseYarnVersion(raw[1], raw[2], raw[3])
ParseYarnVersionCall ==
    /\ call = "parseYarnVersion"
    /\ pc = "call"
    /\ canon' = <<parseYarnVersion(raw[1], raw[2], raw[3])>>
    /\ pc' = "done"
    /\ UNCHANGED <<lockVars, gemVars, scanVars, registryVars>>
    /\ UNCHANGED <<raw, system, parsed, reparsed, cmp>>

YarnVersionStrings == {"", "*", "^1.0.0", " 1.2.3 "}

YarnSpecTypes == {"workspace", "patch", "npm", "git", "file", "tarball", ""}

YarnResolutions == {"", "file:../x", "https://r/x.tgz", "ms@workspace:."}

InitYarnVersion ==
    /\ call = "parseYarnVersion"
    /\ pc = "call"
    /\ system = "none"
    /\ raw \in YarnVersionStrings \X YarnSpecTypes \X YarnResolutions
    /\ parsed = << >>
    /\ canon = << >>
    /\ reparsed = << >>
    /\ cmp = << >>
    /\ IdleCall
    /\ IdleScan
    /\ IdleLock
    /\ IdleGem

SpecYarnVersion == InitYarnVersion /\ [][ParseYarnVersionCall]_vars

YarnVersionDone == call = "parseYarnVersion" /\ pc = "done"

\* C27 as stated: workspace gives workspace, patch gives patch, npm the raw
\* version unchanged (latest for the empty string and *), git gives git: and
\* the resolution when there is one and git otherwise, and file and tarball
\* both give local when the resolution starts with file: and tarball
\* otherwise.
C27_SpecTypeTable ==
    YarnVersionDone =>
        /\ raw[2] = "workspace" => canon[1] = "workspace"
        /\ raw[2] = "patch" => canon[1] = "patch"
        /\ raw[2] = "npm" =>
             canon[1] = IF raw[1] \in {"", "*"} THEN "latest" ELSE raw[1]
        /\ raw[2] = "git" =>
             canon[1] = IF raw[3] # "" THEN "git:" \o raw[3] ELSE "git"
        /\ raw[2] \in {"file", "tarball"} =>
             canon[1] = IF HasPrefix(raw[3], "file:") THEN "local" ELSE "tarball"

\* C27, amended: as stated, except that npm gives the version with the white
\* space around it removed (latest when that is empty or *), and that file
\* gives local whatever the resolution is; only tarball looks at the
\* resolution.
C27_SpecTypeTableFileLocal ==
    YarnVersionDone =>
        /\ raw[2] = "workspace" => canon[1] = "workspace"
        /\ raw[2] = "patch" => canon[1] = "patch"
        /\ raw[2] = "npm" =>
             canon[1] = IF TrimSpace(raw[1]) \in {"", "*"} THEN "latest"
                        ELSE TrimSpace(raw[1])
        /\ raw[2] = "git" =>
             canon[1] = IF raw[3] # "" THEN "git:" \o raw[3] ELSE "git"
        /\ raw[2] = "file" => canon[1] = "local"
        /\ raw[2] = "tarball" =>
             canon[1] = IF HasPrefix(raw[3], "file:") THEN "local" ELSE "tarball"

\* a file entry whose resolution does not start with file: came back local
C27_Witness ==
    /\ YarnVersionDone
    /\ raw[2] = "file"
    /\ raw[3] = "https://r/x.tgz"
    /\ canon = <<"local">>

-----------------------------------------------------------------------------
(* Gemfile.lock: the sections in any order                                 *)

RubyVersionSection == <<"RUBY VERSION", "   ruby 3.2.2p53", "">>

BundledWithSection == <<"BUNDLED WITH", "   2.4.10", "">>

\* the five sections of a lockfile, the DEPENDENCIES one with body d
LockSections(d) ==
    << GemSection(<<"    rails (7.1.0)">>),
       PlatformsSection,
       DependenciesSection(d),
       RubyVersionSection,
       BundledWithSection >>

SectionOrders ==
    { f \in [1..5 -> 1..5] : \A i, j \in 1..5 : f[i] = f[j] => i = j }

GemfileLocksInAnyOrder ==
    { Join(Flatten([i \in 1..5 |-> LockSections(d)[f[i]]]), "\n") :
        f \in SectionOrders, d \in Selections(GemDependencyLines, 2) }

InitGemfileLockSections ==
    /\ call = "ParseGemfileLockWithOptions"
    /\ pc = "call"
    /\ content \in GemfileLocksInAnyOrder
    /\ options \in [IncludeTransitive : BOOLEAN]
    /\ dependencies = << >>
    /\ IdleLock
    /\ IdleGem
    /\ IdleVer
    /\ IdleScan

SpecGemfileLockSections == InitGemfileLockSections /\ [][NextGemfileLock]_vars

\* a section header: a line that is not empty and not indented
IsSectionHeader(line) == line # "" /\ ~IsSpace(At(line, 0))

\* the first token of each non-blank line between the DEPENDENCIES header and
\* the next section header
RECURSIVE DependenciesNames(_, _, _)
DependenciesNames(ls, i, inSection) ==
    IF i > Len(ls) THEN {}
    ELSE IF IsSectionHeader(ls[i])
    THEN DependenciesNames(ls, i + 1, ls[i] = "DEPENDENCIES")
    ELSE (IF inSection /\ TrimSpace(ls[i]) # "" THEN {Fields(ls[i])[1]} ELSE {})
         \cup DependenciesNames(ls, i + 1, inSection)

\* C28: the direct-name set holds exactly the first token of each non-blank
\* line of the DEPENDENCIES section, which ends at the next section header;
\* the lines of GEM, PLATFORMS, RUBY VERSION and BUNDLED WITH add no name,
\* wherever those sections stand in the file.
C28_DirectNamesFromDependenciesOnly ==
    (call = "ParseGemfileLockWithOptions" /\ pc \in {"lines", "done"}) =>
        directDeps = DependenciesNames(lines, 1, FALSE)

-----------------------------------------------------------------------------
(* The registries: src/internal/scanner/components/registry.go and         *)
(* src/internal/scanner/providers/providers.go                             *)

\* number of calls of each Register
MaxRegisters == 2

\* number of calls of GetDetectors, Get and GetAll together
MaxReads == 2

\* what every step of a registry call leaves alone
RegistryFrame == UNCHANGED <<lockVars, gemVars, verVars, scanVars, pc>>

\* components.Register, line 14, with a lock that does not wait
RegisterLockNoWait(p) ==
    /\ thread[p].pc = "idle"
    /\ registered.detectors < MaxRegisters
    /\ mu' = [mu EXCEPT !.writer = p]
    /\ thread' = [thread EXCEPT ![p].pc = "Register",
                                ![p].id = registered.detectors + 1]
    /\ registered' = [registered EXCEPT !.detectors = @ + 1]
    /\ UNCHANGED <<detectors, packageProviders, providersMutex>>
    /\ RegistryFrame

\* components.Register, lines 13-14: the call for a new detector takes the
\* write lock, which waits until no reader and no writer holds mu
RegisterLock(p) ==
    /\ thread[p].pc = "idle"
    /\ registered.detectors < MaxRegisters
    /\ mu = Unlocked
    /\ mu' = [mu EXCEPT !.writer = p]
    /\ thread' = [thread EXCEPT ![p].pc = "Register",
                                ![p].id = registered.detectors + 1]
    /\ registered' = [registered EXCEPT !.detectors = @ + 1]
    /\ UNCHANGED <<detectors, packageProviders, providersMutex>>
    /\ RegistryFrame

\* line 16, first half: append reads the slice
RegisterLoad(p) ==
    /\ thread[p].pc = "Register"
    /\ thread' = [thread EXCEPT ![p].pc = "Register.store",
                                ![p].local = detectors]
    /\ UNCHANGED <<detectors, mu, packageProviders, providersMutex, registered>>
    /\ RegistryFrame

\* line 16, second half: the slice with the detector behind it is stored
RegisterStore(p) ==
    /\ thread[p].pc = "Register.store"
    /\ detectors' = Append(thread[p].local, thread[p].id)
    /\ thread' = [thread EXCEPT ![p].pc = "Register.unlock"]
    /\ UNCHANGED <<mu, packageProviders, providersMutex, registered>>
    /\ RegistryFrame

\* lines 15, 17: the deferred mu.Unlock(), the call returns
RegisterUnlock(p) ==
    /\ thread[p].pc = "Register.unlock"
    /\ mu' = [mu EXCEPT !.writer = 0]
    /\ thread' = [thread EXCEPT ![p].pc = "idle", ![p].id = 0, ![p].local = << >>]
    /\ UNCHANGED <<detectors, packageProviders, providersMutex, registered>>
    /\ RegistryFrame

\* GetDetectors, lines 20-21: the read lock waits while a writer holds mu
GetDetectorsRLock(p) ==
    /\ thread[p].pc = "idle"
    /\ registered.reads < MaxReads
    /\ mu.writer = 0
    /\ mu' = [mu EXCEPT !.readers = @ \cup {p}]
    /\ thread' = [thread EXCEPT ![p].pc = "GetDetectors"]
    /\ registered' = [registered EXCEPT !.reads = @ + 1]
    /\ UNCHANGED <<detectors, packageProviders, providersMutex>>
    /\ RegistryFrame

\* lines 22-23: the slice is returned, then the deferred mu.RUnlock()
GetDetectorsReturn(p) ==
    /\ thread[p].pc = "GetDetectors"
    /\ mu' = [mu EXCEPT !.readers = @ \ {p}]
    /\ thread' = [thread EXCEPT ![p].pc = "idle", ![p].local = detectors]
    /\ UNCHANGED <<detectors, packageProviders, providersMutex, registered>>
    /\ RegistryFrame

\* providers.Register, lines 22-23: the call for a new provider of type t
\* takes the write lock; the calls that had returned before are noted
ProvidersRegisterLock(p, t) ==
    /\ thread[p].pc = "idle"
    /\ Len(registered.providers) < MaxRegisters
    /\ providersMutex = Unlocked
    /\ providersMutex' = [providersMutex EXCEPT !.writer = p]
    /\ thread' = [thread EXCEPT ![p].pc = "providers.Register",
                                ![p].type = t,
                                ![p].id = Len(registered.providers) + 1]
    /\ registered' = [registered EXCEPT !.providers =
           Append(@, [type |-> t, returned |-> FALSE,
                      after |-> { k \in 1..Len(@) : @[k].returned }])]
    /\ UNCHANGED <<detectors, mu, packageProviders>>
    /\ RegistryFrame

\* line 25: packageProviders[provider.DependencyType] = provider
ProvidersRegisterStore(p) ==
    /\ thread[p].pc = "providers.Register"
    /\ packageProviders' = [packageProviders EXCEPT ![thread[p].type] = thread[p].id]
    /\ thread' = [thread EXCEPT ![p].pc = "providers.Register.unlock"]
    /\ UNCHANGED <<detectors, mu, providersMutex, registered>>
    /\ RegistryFrame

\* lines 24, 26: the deferred providersMutex.Unlock(), the call returns
ProvidersRegisterUnlock(p) ==
    /\ thread[p].pc = "providers.Register.unlock"
    /\ providersMutex' = [providersMutex EXCEPT !.writer = 0]
    /\ thread' = [thread EXCEPT ![p].pc = "idle", ![p].id = 0, ![p].type = ""]
    /\ registered' = [registered EXCEPT !.providers[thread[p].id].returned = TRUE]
    /\ UNCHANGED <<detectors, mu, packageProviders>>
    /\ RegistryFrame

\* providers.Get, lines 29-30
GetRLock(p, t) ==
    /\ thread[p].pc = "idle"
    /\ registered.reads < MaxReads
    /\ providersMutex.writer = 0
    /\ providersMutex' = [providersMutex EXCEPT !.readers = @ \cup {p}]
    /\ thread' = [thread EXCEPT ![p].pc = "Get", ![p].type = t]
    /\ registered' = [registered EXCEPT !.reads = @ + 1]
    /\ UNCHANGED <<detectors, mu, packageProviders>>
    /\ RegistryFrame

\* lines 31-32: the entry is returned, nil when there is none
GetReturn(p) ==
    /\ thread[p].pc = "Get"
    /\ providersMutex' = [providersMutex EXCEPT !.readers = @ \ {p}]
    /\ thread' = [thread EXCEPT ![p].pc = "idle", ![p].type = "",
                                ![p].provider = packageProviders[thread[p].type]]
    /\ UNCHANGED <<detectors, mu, packageProviders, registered>>
    /\ RegistryFrame

\* providers.GetAll, lines 36-37
GetAllRLock(p) ==
    /\ thread[p].pc = "idle"
    /\ registered.reads < MaxReads
    /\ providersMutex.writer = 0
    /\ providersMutex' = [providersMutex EXCEPT !.readers = @ \cup {p}]
    /\ thread' = [thread EXCEPT ![p].pc = "GetAll"]
    /\ registered' = [registered EXCEPT !.reads = @ + 1]
    /\ UNCHANGED <<detectors, mu, packageProviders>>
    /\ RegistryFrame

\* lines 38-45: a new map takes every entry and is returned, then the
\* deferred providersMutex.RUnlock()
GetAllReturn(p) ==
    /\ thread[p].pc = "GetAll"
    /\ providersMutex' = [providersMutex EXCEPT !.readers = @ \ {p}]
    /\ thread' = [thread EXCEPT ![p].pc = "idle",
                                ![p].all = [t \in DependencyTypes |-> packageProviders[t]]]
    /\ UNCHANGED <<detectors, mu, packageProviders, registered>>
    /\ RegistryFrame

InitRegistry ==
    /\ call = "Register"
    /\ pc = "call"
    /\ IdleCall
    /\ IdleScan
    /\ IdleLock
    /\ IdleGem
    /\ IdleVer

NextRegistry ==
    \E p \in Threads :
        \/ RegisterLock(p)
        \/ RegisterLoad(p)
        \/ RegisterStore(p)
        \/ RegisterUnlock(p)
        \/ GetDetectorsRLock(p)
        \/ GetDetectorsReturn(p)
        \/ \E t \in DependencyTypes : ProvidersRegisterLock(p, t)
        \/ ProvidersRegisterStore(p)
        \/ ProvidersRegisterUnlock(p)
        \/ \E t \in DependencyTypes : GetRLock(p, t)
        \/ GetReturn(p)
        \/ GetAllRLock(p)
        \/ GetAllReturn(p)

SpecRegistry == InitRegistry /\ [][NextRegistry]_vars

\* every call of components.Register has returned
DetectorsSettled ==
    \A p \in Threads : thread[p].pc \notin {"Register", "Register.store", "Register.unlock"}

\* every call of providers.Register has returned
ProvidersSettled ==
    \A p \in Threads :
        thread[p].pc \notin {"providers.Register", "providers.Register.unlock"}

\* the Register calls for type t
RegistersOf(t) ==
    { k \in 1..Len(registered.providers) : registered.providers[k].type = t }

\* the calls for type t that no other call for t came after
LastRegistersOf(t) ==
    { k \in RegistersOf(t) :
        \A j \in RegistersOf(t) : k \notin registered.providers[j].after }

\* once all Register calls have returned the slice holds every registered
\* detector exactly once, and each type maps to the provider of a last
\* Register for it (to nothing when there was none)
NoRegistrationLost ==
    /\ DetectorsSettled =>
         /\ Len(detectors) = registered.detectors
         /\ \A d \in 1..registered.detectors :
              Cardinality({ i \in 1..Len(detectors) : detectors[i] = d }) = 1
    /\ ProvidersSettled =>
         \A t \in DependencyTypes :
            IF RegistersOf(t) = {} THEN packageProviders[t] = 0
            ELSE packageProviders[t] \in LastRegistersOf(t)

\* the map a goroutine got from GetAll stays as it is while the goroutine is
\* outside every call, whatever the others register
ReturnedMapKept ==
    \A p \in Threads :
        (thread[p].pc = "idle" /\ thread'[p].pc = "idle") =>
            thread'[p].all = thread[p].all

\* C30: under every interleaving of Register calls with GetDetectors, Get
\* and GetAll, no registration is lost (all detectors present exactly once,
\* each type mapped to the provider of its last Register once the calls have
\* returned) and a map returned by GetAll is not changed by a later Register.
C30_RegistriesLoseNothing ==
    [](NoRegistrationLost) /\ [][ReturnedMapKept]_vars

\* all Register calls have been made and have returned, one type was
\* registered twice, and a goroutine holds a map from GetAll that lacks what
\* was registered after it
C30_Witness ==
    /\ DetectorsSettled
    /\ ProvidersSettled
    /\ Len(detectors) = MaxRegisters
    /\ \E t \in DependencyTypes : Cardinality(RegistersOf(t)) = MaxRegisters
    /\ \E p \in Threads :
         /\ thread[p].pc = "idle"
         /\ thread[p].all # NoProviders
         /\ thread[p].all # packageProviders

====
